---- MODULE Spec2Model ----
(***************************************************************************)
(* A model of the simulation driver BindingKinetics                        *)
(* (modelling/binding_kinetics.py), of the parameter library               *)
(* (modelling/lib_binding_kinetics.py) and of the scripts that sweep over  *)
(* concentrations and drugs (scripts/).                                    *)
(*                                                                         *)
(* The external ODE solver (myokit.Simulation) is modelled by what the     *)
(* driver can observe of it: the state it starts integrating from, the     *)
(* constants and tolerances installed, the unrecorded and recorded time it *)
(* integrated, the order of the calls made on it, and whether an           *)
(* integration raised.  Real-valued literals are kept as the text of the   *)
(* literal; times are counted in units of the smallest log interval.       *)
(***************************************************************************)
EXTENDS Integers, Sequences, FiniteSets, TLC

\* ---------------------------------------------------------------- bounds
\* largest drug concentration given to a call
MaxConc == 1
\* largest number of pulses (repeats) given to a call
MaxRepeats == 2
\* the protocol's characteristic time is 2 * PeriodUnits time units
PeriodUnits == 1

\* ------------------------------------------------------ parameter library
\* BindingParameters.binding_parameters, every literal as written
binding_parameters ==
   ("dofetilide" :> [Vhalf |-> "-1.147", Kmax |-> "1e8", Ku |-> "1.79e-5", N |-> "0.9999", EC50 |-> "5.483e8", Cmax |-> "2"]) @@
   ("bepridil" :> [Vhalf |-> "-54.93", Kmax |-> "3.735e7", Ku |-> "1.765e-4", N |-> "0.9365", EC50 |-> "1e9", Cmax |-> "33"]) @@
   ("terfenadine" :> [Vhalf |-> "-77.49", Kmax |-> "9884", Ku |-> "8.18e-5", N |-> "0.65", EC50 |-> "41380", Cmax |-> "4"]) @@
   ("cisapride" :> [Vhalf |-> "-199.5", Kmax |-> "9.997", Ku |-> "4.161e-4", N |-> "0.9728", EC50 |-> "42.06", Cmax |-> "2.6"]) @@
   ("cisapride_kmax_verapamil" :> [Vhalf |-> "-199.5", Kmax |-> "4.646e4", Ku |-> "4.161e-4", N |-> "0.9728", EC50 |-> "42.06", Cmax |-> "2.6"]) @@
   ("cisapride_kmax_bepridil" :> [Vhalf |-> "-199.5", Kmax |-> "3.735e7", Ku |-> "4.161e-4", N |-> "0.9728", EC50 |-> "42.06", Cmax |-> "2.6"]) @@
   ("cisapride_EC50_ranolazine" :> [Vhalf |-> "-199.5", Kmax |-> "9.997", Ku |-> "4.161e-4", N |-> "0.9728", EC50 |-> "1.472e5", Cmax |-> "2.6"]) @@
   ("cisapride_EC50_verapamil" :> [Vhalf |-> "-199.5", Kmax |-> "9.997", Ku |-> "4.161e-4", N |-> "0.9728", EC50 |-> "9.184e6", Cmax |-> "2.6"]) @@
   ("cisapride_kmax_EC50_verapamil" :> [Vhalf |-> "-199.5", Kmax |-> "4.646e4", Ku |-> "4.161e-4", N |-> "0.9728", EC50 |-> "9.184e6", Cmax |-> "2.6"]) @@
   ("verapamil" :> [Vhalf |-> "-100", Kmax |-> "4.646e4", Ku |-> "7.927e-4", N |-> "1.043", EC50 |-> "9.184e6", Cmax |-> "81"]) @@
   ("ranolazine" :> [Vhalf |-> "-94.87", Kmax |-> "55.84", Ku |-> "1.929e-2", N |-> "0.95", EC50 |-> "1.472e5", Cmax |-> "1948.2"]) @@
   ("mexiletine" :> [Vhalf |-> "-86.26", Kmax |-> "9.996", Ku |-> "9.967e-2", N |-> "1.304", EC50 |-> "2.308e6", Cmax |-> "4129"]) @@
   ("quinidine" :> [Vhalf |-> "-64.87", Kmax |-> "5770", Ku |-> "1e-2", N |-> "0.8311", EC50 |-> "1e6", Cmax |-> "3237"]) @@
   ("sotalol" :> [Vhalf |-> "-55", Kmax |-> "2403", Ku |-> "1.985e-2", N |-> "0.7516", EC50 |-> "9.619e6", Cmax |-> "14690"]) @@
   ("chlorpromazine" :> [Vhalf |-> "-14.57", Kmax |-> "206000", Ku |-> "3.866e-2", N |-> "0.8871", EC50 |-> "5.677e7", Cmax |-> "38"]) @@
   ("ondansetron" :> [Vhalf |-> "-82.11", Kmax |-> "33540", Ku |-> "2.325e-2", N |-> "0.8874", EC50 |-> "9.95e6", Cmax |-> "139"]) @@
   ("diltiazem" :> [Vhalf |-> "-90.89", Kmax |-> "251", Ku |-> "2.816e-1", N |-> "0.9485", EC50 |-> "1e6", Cmax |-> "122"]) @@
   ("droperidol" :> [Vhalf |-> "-78.68", Kmax |-> "14.21", Ku |-> "1.256e-3", N |-> "0.578", EC50 |-> "116.5", Cmax |-> "6.33"]) @@
   ("pimozide" :> [Vhalf |-> "-78.68", Kmax |-> "10.07", Ku |-> "4.576e-5", N |-> "0.8714", EC50 |-> "5.601", Cmax |-> "0.431"])

\* the keys a lookup binding_parameters[drug] resolves
KnownDrugs == DOMAIN binding_parameters

\* ParameterCategory.param_names, the order of a custom parameter tuple
param_names == <<"Vhalf", "Kmax", "Ku", "N", "EC50">>

\* ------------------------------------------------------------ the driver
VARIABLES
  model,               \* self.model: the declared state values and constants
  original_constants,  \* self.original_constants, saved by __init__
  initial_state,       \* self.initial_state, saved by __init__
  sim,                 \* self.sim, the solver the driver holds
  call,                \* the arguments of the latest call on the driver
  ret,                 \* what the latest call gave back: a log or an error
  obj,                 \* the caller's starting-state object after the call
  script,              \* binding_kinetics_comparison.py: where it stands
  sa,                  \* SA_drugs.py: where it stands, and its results file
  first,               \* the outcome of the first of two identical calls
  analysis,            \* the signal handed to a post-processing method,
                       \* and what the method gave back
  lookup               \* the latest read of a library table



\* the names of the seven constants of the current's component
ConstNames == {"Vhalf", "Kmax", "Ku", "n", "halfmax", "Kt", "gKr"}

\* the constants a model declares, as myokit evaluates them
DeclaredConstants(m) ==
  [Vhalf |-> m.Vhalf, Kmax |-> m.Kmax, Ku |-> m.Ku, n |-> m.n,
   halfmax |-> m.halfmax, Kt |-> m.Kt, gKr |-> m.gKr]

\* the state vector a model declares: the drug concentration ikr.D and the
\* other components (membrane.V stands for all of them)
DeclaredState(m) == [D |-> m.D, V |-> m.V]

\* myokit's default tolerances (abs_tol, rel_tol) of a new Simulation
DefaultTol == <<"1e-6", "1e-4">>

Op(name, arg) == [op |-> name, arg |-> arg]

\* myokit.Simulation(model, protocol): a new solver on a clone of the model
Simulation(m, protocol) ==
  [default |-> DeclaredState(m), start |-> DeclaredState(m),
   constants |-> DeclaredConstants(m), ion |-> <<>>, tol |-> DefaultTol,
   protocol |-> protocol, pre_time |-> 0, run_time |-> 0, failed |-> FALSE,
   ops |-> <<Op("Simulation", "")>>]

\* sim.reset(): back to the default state
reset(s) == [s EXCEPT !.start = s.default, !.ops = Append(@, Op("reset", ""))]

\* sim.set_tolerance(abs_tol, rel_tol)
set_tolerance(s, tol) ==
  [s EXCEPT !.tol = tol, !.ops = Append(@, Op("set_tolerance", ""))]

\* sim.set_fixed_form_protocol(times, voltages)
set_fixed_form_protocol(s) ==
  [s EXCEPT !.protocol = "fixed_form",
            !.ops = Append(@, Op("set_fixed_form_protocol", ""))]

\* the state vector myokit maps a starting-state object to: the last value
\* of every series
MapToState(o) == [D |-> o.D[Len(o.D)], V |-> o.V[Len(o.V)]]

\* sim.set_state(state)
set_state(s, o) ==
  [s EXCEPT !.start = MapToState(o), !.ops = Append(@, Op("set_state", ""))]

\* sim.set_constant(var, value)
set_constant(s, name, value) ==
  [s EXCEPT !.constants[name] = value,
            !.ops = Append(@, Op("set_constant", name))]

\* sim.set_constant on a conductance of another channel (multi-ion mode):
\* base value of the model times the scale
set_ion_constant(s, name, scale) ==
  [s EXCEPT !.ion = (name :> scale) @@ @,
            !.ops = Append(@, Op("set_constant", name))]

\* sim.pre(duration): integrate without recording; ok = FALSE when the
\* solver raises
pre(s, duration, ok) ==
  [s EXCEPT !.pre_time = IF ok THEN @ + duration ELSE @,
            !.failed = ~ok, !.ops = Append(@, Op("pre", ""))]

\* sim.run(duration, log, log_interval): integrate and record
run(s, duration, ok) ==
  [s EXCEPT !.run_time = IF ok THEN @ + duration ELSE @,
            !.failed = ~ok, !.ops = Append(@, Op("run", ""))]

\* ------------------------------------------------------------------ logs
\* A log holds the time base and the series of one recorded variable
\* (membrane.V stands for every logged variable).  A flat log has the
\* series V; a folded log has one series per pulse in pulses.  The value of
\* a sample is its index in the recording.
NoLog == [folded |-> FALSE, time |-> <<>>, V |-> <<>>, pulses |-> <<>>]

\* number of points sim.run logs over duration at log_interval: the points
\* 0, dt, 2 dt, ... before duration
NPoints(duration, timestep) == (duration + timestep - 1) \div timestep

\* the log of sim.run(duration, log_interval = timestep)
RunLog(duration, timestep) ==
  [folded |-> FALSE,
   time |-> [k \in 1..NPoints(duration, timestep) |-> (k - 1) * timestep],
   V |-> [k \in 1..NPoints(duration, timestep) |-> k],
   pulses |-> <<>>]

\* the indices of a time base that fall into period i (counted from 0)
PeriodIdx(time, period, i) ==
  {k \in 1..Len(time) : time[k] \div period = i}

Min(S) == CHOOSE x \in S : \A y \in S : x <= y

\* the part of a series that falls into period i
Part(series, time, period, i) ==
  LET idx == PeriodIdx(time, period, i)
  IN  IF idx = {} THEN <<>>
      ELSE [j \in 1..Cardinality(idx) |-> series[Min(idx) + j - 1]]

\* DataLog.fold(period): split into periods, times adjusted to start at 0,
\* a shorter last part discarded
fold(log, period) ==
  LET n     == IF Len(log.time) = 0 THEN 0
               ELSE (log.time[Len(log.time)] \div period) + 1
      parts == [i \in 1..n |-> Part(log.V, log.time, period, i - 1)]
      kept  == IF n > 1 /\ Len(parts[n]) < Len(parts[1])
               THEN SubSeq(parts, 1, n - 1) ELSE parts
      t0    == Part(log.time, log.time, period, 0)
  IN  [folded |-> TRUE, time |-> t0, V |-> <<>>, pulses |-> kept]

\* ------------------------------------------------------ BindingKinetics
\* self.protocol.characteristic_time(): the period of the pacing protocol
characteristic_time == 2 * PeriodUnits

\* the literal the drug-driven modes install for the trafficking rate Kt
TraffickingRate == "3.5e-5"

\* the number of unrecorded paces of drug_APclamp
APclampPaces == 1000

\* Python truthiness of a starting-state argument: None and an empty
\* mapping are falsy
Truthy(o) == o.kind = "log"

\* a slip of set_state_value: the concentration added to what ikr.D holds
set_state_valueAdded(m, drug_conc) ==
  [m EXCEPT !.D = (@ + drug_conc) % (MaxConc + 1)]

\* concentration.set_state_value(drug_conc) on self.model's ikr.D
set_state_value(m, drug_conc) == [m EXCEPT !.D = drug_conc]

\* a slip of OverrideD: the first entry of the series is overwritten
OverrideFirst(o, drug_conc) == [o EXCEPT !.D[1] = drug_conc]

\* a slip of OverrideD: every entry of the series is overwritten
OverrideAll(o, drug_conc) == [o EXCEPT !.D = [i \in DOMAIN @ |-> drug_conc]]

\* set_state['ikr.D'][-1] = drug_conc on the caller's object
OverrideD(o, drug_conc) == [o EXCEPT !.D[Len(o.D)] = drug_conc]

Raised(error) == [kind |-> "error", error |-> error, log |-> NoLog]

Returned(log) == [kind |-> "log", error |-> "", log |-> log]

\* a slip of LookupFailed: the lookup placed after the write of ikr.D
LookupFailedLate(m, s, a) ==
  [model |-> [m EXCEPT !.D = a.drug_conc], sim |-> s,
   ret |-> Raised("KeyError"), obj |-> a.set_state]

\* a lookup binding_parameters[drug] of an unknown name raises KeyError at
\* the top of the method: nothing has been written and no solver made
LookupFailed(m, s, a) ==
  [model |-> m, sim |-> s, ret |-> Raised("KeyError"), obj |-> a.set_state]

\* a slip of PreDuration: save_signal not subtracted
PreDurationAll(t_max, repeats, save_signal) == t_max * repeats

\* the duration given to sim.pre
PreDuration(t_max, repeats, save_signal) == t_max * (repeats - save_signal)

\* the duration given to sim.run
RunDuration(t_max, save_signal) == t_max * save_signal

\* a slip of ShouldFold: an off-by-one comparison
ShouldFoldAlways(save_signal) == save_signal >= 1

\* the test that decides whether the recorded log is folded
ShouldFold(save_signal) == save_signal > 1

\* a slip of InstallDrug: Kt taken from the model, as conductance mode does
InstallDrugModelKt(s, Vhalf, Kmax, Ku, N, EC50, oc) ==
  LET s1 == set_constant(s, "Vhalf", Vhalf)
      s2 == set_constant(s1, "Kmax", Kmax)
      s3 == set_constant(s2, "Ku", Ku)
      s4 == set_constant(s3, "n", N)
      s5 == set_constant(s4, "halfmax", EC50)
      s6 == set_constant(s5, "Kt", oc.Kt)
  IN  set_constant(s6, "gKr", oc.gKr)

\* the seven set_constant calls of the drug-driven modes
InstallDrug(s, Vhalf, Kmax, Ku, N, EC50, oc) ==
  LET s1 == set_constant(s, "Vhalf", Vhalf)
      s2 == set_constant(s1, "Kmax", Kmax)
      s3 == set_constant(s2, "Ku", Ku)
      s4 == set_constant(s3, "n", N)
      s5 == set_constant(s4, "halfmax", EC50)
      s6 == set_constant(s5, "Kt", TraffickingRate)
  IN  set_constant(s6, "gKr", oc.gKr)

\* a slip of InstallOriginal: Ku restored from the saved Kmax
InstallOriginalSlip(s, oc, conductance) ==
  LET s1 == set_constant(s, "Vhalf", oc.Vhalf)
      s2 == set_constant(s1, "Kmax", oc.Kmax)
      s3 == set_constant(s2, "Ku", oc.Kmax)
      s4 == set_constant(s3, "n", oc.n)
      s5 == set_constant(s4, "halfmax", oc.EC50)
      s6 == set_constant(s5, "Kt", oc.Kt)
  IN  set_constant(s6, "gKr", conductance)

\* the seven set_constant calls of conductance_simulation
InstallOriginal(s, oc, conductance) ==
  LET s1 == set_constant(s, "Vhalf", oc.Vhalf)
      s2 == set_constant(s1, "Kmax", oc.Kmax)
      s3 == set_constant(s2, "Ku", oc.Ku)
      s4 == set_constant(s3, "n", oc.n)
      s5 == set_constant(s4, "halfmax", oc.EC50)
      s6 == set_constant(s5, "Kt", oc.Kt)
  IN  set_constant(s6, "gKr", conductance)

\* the scaling of the conductances of the six other channels
InstallIonScale(s, ion_scale) ==
  LET s1 == set_ion_constant(s, "gNaL", ion_scale["INaL"])
      s2 == set_ion_constant(s1, "base", ion_scale["ICaL"])
      s3 == set_ion_constant(s2, "gNa", ion_scale["INa"])
      s4 == set_ion_constant(s3, "gto", ion_scale["Ito"])
      s5 == set_ion_constant(s4, "gK1", ion_scale["IK1"])
  IN  set_ion_constant(s5, "gKs", ion_scale["IKs"])

\* a slip of PaceAndRecord: the solver's exception caught, and what was
\* recorded so far (nothing, or a log cut short) handed back
PaceAndRecordCaught(s, t_max, a, fail) ==
  LET s1  == pre(s, PreDuration(t_max, a.repeats, a.save_signal),
                 fail # "pre")
      s2  == run(s1, RunDuration(t_max, a.save_signal), fail # "run")
      log == RunLog(RunDuration(t_max, a.save_signal), a.timestep)
      d2  == IF ShouldFold(a.save_signal) THEN fold(log, t_max) ELSE log
  IN  IF fail = "pre" THEN [sim |-> s1, ret |-> Returned(NoLog)]
      ELSE IF fail = "run"
           THEN [sim |-> s2, ret |-> Returned(RunLog(t_max, a.timestep))]
           ELSE [sim |-> s2, ret |-> Returned(d2)]

\* a slip of PaceAndRecord: the solver reset once the log is taken, as
\* drug_APclamp does
PaceAndRecordReset(s, t_max, a, fail) ==
  LET s1  == pre(s, PreDuration(t_max, a.repeats, a.save_signal),
                 fail # "pre")
      s2  == run(s1, RunDuration(t_max, a.save_signal), fail # "run")
      log == RunLog(RunDuration(t_max, a.save_signal), a.timestep)
      d2  == IF ShouldFold(a.save_signal) THEN fold(log, t_max) ELSE log
  IN  IF fail = "pre" THEN [sim |-> s1, ret |-> Raised("SimulationError")]
      ELSE IF fail = "run"
           THEN [sim |-> s2, ret |-> Raised("SimulationError")]
           ELSE [sim |-> reset(s2), ret |-> Returned(d2)]

\* the common tail: pre-pace, record, fold.  fail says where the solver
\* raises: "none", "pre" or "run"; an exception of the solver is not caught
PaceAndRecord(s, t_max, a, fail) ==
  LET s1  == pre(s, PreDuration(t_max, a.repeats, a.save_signal),
                 fail # "pre")
      s2  == run(s1, RunDuration(t_max, a.save_signal), fail # "run")
      log == RunLog(RunDuration(t_max, a.save_signal), a.timestep)
      d2  == IF ShouldFold(a.save_signal) THEN fold(log, t_max) ELSE log
  IN  IF fail = "pre" THEN [sim |-> s1, ret |-> Raised("SimulationError")]
      ELSE IF fail = "run"
           THEN [sim |-> s2, ret |-> Raised("SimulationError")]
           ELSE [sim |-> s2, ret |-> Returned(d2)]

drug_simulation(m, s, oc, a, fail) ==
  IF a.drug \notin KnownDrugs THEN LookupFailed(m, s, a)
  ELSE
    LET p     == binding_parameters[a.drug]
        t_max == IF a.protocol_period = <<>> THEN characteristic_time
                 ELSE a.protocol_period[1]
        m1    == set_state_value(m, a.drug_conc)
        s0    == set_tolerance(reset(Simulation(m1, "protocol")), a.tol)
        o1    == IF Truthy(a.set_state)
                 THEN OverrideD(a.set_state, a.drug_conc) ELSE a.set_state
        s1    == IF Truthy(a.set_state) THEN set_state(s0, o1) ELSE s0
        s2    == InstallDrug(s1, p.Vhalf, p.Kmax, p.Ku, p.N, p.EC50, oc)
        r     == PaceAndRecord(s2, t_max, a, fail)
    IN  [model |-> m1, sim |-> r.sim, ret |-> r.ret, obj |-> o1]

custom_simulation(m, s, oc, a, fail) ==
  LET p  == a.param_values
      m1 == set_state_value(m, a.drug_conc)
      s0 == set_tolerance(reset(Simulation(m1, "protocol")), a.tol)
      s2 == InstallDrug(s0, p.Vhalf, p.Kmax, p.Ku, p.N, p.EC50, oc)
      r  == PaceAndRecord(s2, characteristic_time, a, fail)
  IN  [model |-> m1, sim |-> r.sim, ret |-> r.ret, obj |-> a.set_state]

conductance_simulation(m, s, oc, a, fail) ==
  LET s0 == reset(Simulation(m, "protocol"))
      s1 == IF Truthy(a.set_state) THEN set_state(s0, a.set_state) ELSE s0
      s2 == InstallOriginal(set_tolerance(s1, a.tol), oc, a.conductance)
      r  == PaceAndRecord(s2, characteristic_time, a, fail)
  IN  [model |-> m, sim |-> r.sim, ret |-> r.ret, obj |-> a.set_state]

\* drug_APclamp paces APclampPaces times without a log, whatever repeats
\* is, records one period at the solver's own steps and resets the solver
drug_APclamp(m, s, oc, a, fail) ==
  IF a.drug \notin KnownDrugs THEN LookupFailed(m, s, a)
  ELSE
    LET p   == binding_parameters[a.drug]
        m1  == set_state_value(m, a.drug_conc)
        s0  == set_tolerance(
                 reset(set_fixed_form_protocol(Simulation(m1, "none"))),
                 a.tol)
        s2  == InstallDrug(s0, p.Vhalf, p.Kmax, p.Ku, p.N, p.EC50, oc)
        s3  == pre(s2, APclampPaces * a.t_max, fail # "pre")
        s4  == run(s3, a.t_max, fail # "run")
        log == RunLog(a.t_max, a.timestep)
        d2  == IF ShouldFold(a.save_signal) THEN fold(log, a.t_max) ELSE log
    IN  IF fail = "pre"
        THEN [model |-> m1, sim |-> s3, ret |-> Raised("SimulationError"),
              obj |-> a.set_state]
        ELSE IF fail = "run"
        THEN [model |-> m1, sim |-> s4, ret |-> Raised("SimulationError"),
              obj |-> a.set_state]
        ELSE [model |-> m1, sim |-> reset(s4), ret |-> Returned(d2),
              obj |-> a.set_state]

drug_multiion_simulation(m, s, oc, a, fail) ==
  IF a.drug \notin KnownDrugs THEN LookupFailed(m, s, a)
  ELSE
    LET p  == binding_parameters[a.drug]
        m1 == set_state_value(m, a.drug_conc)
        s0 == set_tolerance(reset(Simulation(m1, "protocol")), a.tol)
        o1 == IF Truthy(a.set_state)
              THEN OverrideD(a.set_state, a.drug_conc) ELSE a.set_state
        s1 == IF Truthy(a.set_state) THEN set_state(s0, o1) ELSE s0
        s2 == InstallDrug(s1, p.Vhalf, p.Kmax, p.Ku, p.N, p.EC50, oc)
        s3 == InstallIonScale(s2, a.ion_scale)
        r  == PaceAndRecord(s3, characteristic_time, a, fail)
    IN  [model |-> m1, sim |-> r.sim, ret |-> r.ret, obj |-> o1]

\* --------------------------------------------------- inputs of the calls
\* drug names given to a call: two of the library and one it does not hold
DrugInputs == {"dofetilide", "verapamil", "aspirin"}

Concs == 0..MaxConc

\* (repeats, save_signal) with repeats >= save_signal >= 1
Pulses == {rs \in (1..MaxRepeats) \X (1..MaxRepeats) : rs[2] <= rs[1]}

\* (timestep, abs_tol, rel_tol) as the scripts give them; the log interval
\* divides the period
Configs == {[timestep |-> 1, tol |-> <<"1e-7", "1e-8">>]}

\* where the solver raises during a call
Fails == {"none", "pre", "run"}

None == [kind |-> "None", D |-> <<>>, V |-> <<>>]

EmptyState == [kind |-> "empty", D |-> <<>>, V |-> <<>>]

\* starting-state arguments: None, an empty mapping, and a log of an
\* earlier run whose last entries differ from the model's declared state
StartObjects ==
  {None, EmptyState, [kind |-> "log", D |-> <<0, 1>>, V |-> <<"V0", "V1">>]}

\* protocol_period arguments of drug_simulation: None or a period
ProtocolPeriods == {<<>>, <<2 * characteristic_time>>}

\* scaled conductances given to conductance_simulation
Conductances == {"0.5 gKr", "0.1 gKr"}

\* custom parameter tuples (one row, columns param_names)
CustomParams ==
  {[Vhalf |-> "-100", Kmax |-> "1e4", Ku |-> "1e-2", N |-> "1", EC50 |-> "1"],
   [Vhalf |-> "-50", Kmax |-> "30", Ku |-> "5e-3", N |-> "0.8",
    EC50 |-> "1e3"]}

Channels == {"INaL", "ICaL", "INa", "Ito", "IK1", "IKs"}

IonScales == {[c \in Channels |-> "0.5"]}

\* the values the loaded model may declare for the trafficking rate
ModelKt == {"model.Kt"}

NoArgs ==
  [mode |-> "none", drug |-> "", drug_conc |-> 0, repeats |-> 1,
   save_signal |-> 1, timestep |-> 1, tol |-> DefaultTol,
   set_state |-> None, protocol_period |-> <<>>, conductance |-> "",
   param_values |-> [Vhalf |-> "", Kmax |-> "", Ku |-> "", N |-> "",
                     EC50 |-> ""],
   t_max |-> 0, ion_scale |-> <<>>]

\* ------------------------------------------------------------- behaviour
\* the models myokit.load may give: the declared state and constants
LoadedModels ==
  [D : {0}, V : {"V0"}, Vhalf : {"model.Vhalf"}, Kmax : {"model.Kmax"},
   Ku : {"model.Ku"}, n : {"model.n"}, halfmax : {"model.halfmax"},
   Kt : ModelKt, gKr : {"model.gKr"}]

\* BindingKinetics.__init__ on a freshly loaded model: the fields of the
\* new driver
BindingKinetics(m) ==
  [model |-> m,
   sim |-> Simulation(m, "protocol"),
   initial_state |-> DeclaredState(m),
   original_constants |->
     [Vhalf |-> m.Vhalf, Kmax |-> m.Kmax, Ku |-> m.Ku, n |-> m.n,
      EC50 |-> m.halfmax, Kt |-> m.Kt, gKr |-> m.gKr]]

NoReturn == [kind |-> "none", error |-> "", log |-> NoLog]

Construct(m) ==
  LET d == BindingKinetics(m)
  IN  /\ model = d.model
      /\ sim = d.sim
      /\ initial_state = d.initial_state
      /\ original_constants = d.original_constants
      /\ call = NoArgs
      /\ ret = NoReturn
      /\ obj = None

\* no call has been repeated
NoFirst == [stage |-> "none"]

\* no post-processing method has been called
NoAnalysis == [fn |-> "none"]
NoLookup == [table |-> "none"]

\* no script is running
ScriptIdle == [status |-> "idle"]

SAIdle == [status |-> "idle"]

DriverInit ==
  /\ \E m \in LoadedModels : Construct(m)
  /\ script = ScriptIdle
  /\ sa = SAIdle
  /\ first = NoFirst
  /\ analysis = NoAnalysis
  /\ lookup = NoLookup

vars ==
  <<model, original_constants, initial_state, sim, call, ret, obj, script,
    sa, first, analysis, lookup>>

\* the driver after a call with arguments a and outcome r
DriverStep(a, r) ==
  /\ model' = r.model
  /\ sim' = r.sim
  /\ ret' = r.ret
  /\ obj' = r.obj
  /\ call' = a
  /\ UNCHANGED <<original_constants, initial_state>>

\* a call made on the driver directly
Called(a, r) ==
  DriverStep(a, r) /\ UNCHANGED <<script, sa, first, analysis, lookup>>

\* For a name the library does not hold one argument tuple is given: the
\* lookup raises before any other argument is read.
Plain(drug, c, rs, o, pp) ==
  \/ drug \in KnownDrugs
  \/ (c = MaxConc /\ rs = <<1, 1>> /\ o = None /\ pp = <<>>)

CallDrugSimulation ==
  \E drug \in DrugInputs, c \in Concs, rs \in Pulses, cfg \in Configs,
     o \in StartObjects, pp \in ProtocolPeriods, fail \in Fails :
    LET a == [NoArgs EXCEPT !.mode = "drug_simulation", !.drug = drug,
                !.drug_conc = c, !.repeats = rs[1], !.save_signal = rs[2],
                !.timestep = cfg.timestep, !.tol = cfg.tol,
                !.set_state = o, !.protocol_period = pp]
    IN  /\ Plain(drug, c, rs, o, pp)
        /\ Called(a, drug_simulation(model, sim, original_constants, a,
                                     fail))

CallCustomSimulation ==
  \E p \in CustomParams, c \in Concs, rs \in Pulses, cfg \in Configs,
     fail \in Fails :
    LET a == [NoArgs EXCEPT !.mode = "custom_simulation",
                !.param_values = p,
                !.drug_conc = c, !.repeats = rs[1], !.save_signal = rs[2],
                !.timestep = cfg.timestep, !.tol = cfg.tol]
    IN  Called(a, custom_simulation(model, sim, original_constants, a, fail))

CallConductanceSimulation ==
  \E g \in Conductances, rs \in Pulses, cfg \in Configs,
     o \in StartObjects, fail \in Fails :
    LET a == [NoArgs EXCEPT !.mode = "conductance_simulation",
                !.conductance = g, !.repeats = rs[1],
                !.save_signal = rs[2], !.timestep = cfg.timestep,
                !.tol = cfg.tol, !.set_state = o]
    IN  Called(a, conductance_simulation(model, sim, original_constants, a,
                                         fail))

\* repeats is not read by drug_APclamp: it is given as save_signal
CallDrugAPclamp ==
  \E drug \in DrugInputs, c \in Concs, k \in 1..MaxRepeats,
     cfg \in Configs, fail \in Fails :
    LET a == [NoArgs EXCEPT !.mode = "drug_APclamp", !.drug = drug,
                !.drug_conc = c, !.repeats = k, !.save_signal = k,
                !.timestep = cfg.timestep, !.tol = cfg.tol,
                !.t_max = characteristic_time]
    IN  /\ Plain(drug, c, <<k, k>>, None, <<>>)
        /\ Called(a, drug_APclamp(model, sim, original_constants, a, fail))

CallDrugMultiionSimulation ==
  \E drug \in DrugInputs, c \in Concs, rs \in Pulses, cfg \in Configs,
     o \in StartObjects \ {EmptyState}, ion \in IonScales, fail \in Fails :
    LET a == [NoArgs EXCEPT !.mode = "drug_multiion_simulation",
                !.drug = drug, !.drug_conc = c, !.repeats = rs[1],
                !.save_signal = rs[2], !.timestep = cfg.timestep,
                !.tol = cfg.tol, !.set_state = o, !.ion_scale = ion]
    IN  /\ Plain(drug, c, rs, o, <<>>)
        /\ Called(a, drug_multiion_simulation(model, sim,
                                              original_constants, a, fail))

Init == DriverInit

Next ==
  \/ CallDrugSimulation
  \/ CallCustomSimulation
  \/ CallConductanceSimulation
  \/ CallDrugAPclamp
  \/ CallDrugMultiionSimulation

Spec == Init /\ [][Next]_vars

\* ------------------------------------- binding_kinetics_comparison.py
\* the pulses simulated at every concentration
script_repeats == 1000

\* the pulses recorded in the action-potential sweeps
script_save_signal == 2

\* sys.argv[1]: the two drugs the script defines concentrations for
ScriptDrugs == {"dofetilide", "verapamil"}

\* The concentrations of a grid are named by their rank in the grid, which
\* is increasing.  drug_conc of the calibration: nine values for
\* dofetilide and eight for verapamil, the first of them 0.
coarse_conc(drug) ==
  IF drug = "dofetilide" THEN [k \in 1..9 |-> k - 1]
  ELSE [k \in 1..8 |-> k - 1]

\* drug_conc of the steady-state comparison: 20 log-spaced values, none 0
fine_conc(drug) == [k \in 1..20 |-> k]

\* a slip of GridOf: the grid of the calibration kept for every phase
GridOfCoarse(sc) == coarse_conc(sc.drug)

\* the grid the loop of a phase runs over
GridOf(sc) ==
  IF sc.phase = "APD_fine" THEN fine_conc(sc.drug) ELSE coarse_conc(sc.drug)

\* repeats_SD: one pulse more for dofetilide in the first AP sweep
RepeatsSD(sc) ==
  IF sc.phase = "AP_pulses" /\ sc.drug = "dofetilide"
  THEN script_repeats + 1 ELSE script_repeats

\* save_signal given in a phase (the default 1 in the current sweeps)
SaveSignalOf(sc) ==
  IF sc.phase \in {"AP_pulses", "APD_fine"} THEN script_save_signal ELSE 1

\* abs_tol and rel_tol given in a phase
TolOf(sc) ==
  IF sc.phase = "APD_fine" THEN <<"1e-7", "1e-10">> ELSE <<"1e-7", "1e-8">>

\* base_conductance * Hill_model.simulate(estimates[:2], drug_conc[i])
ScaledConductance(estimates, conc) == <<"base_conductance", estimates, conc>>

\* what the script keeps of a simulated log: the concentration it belongs
\* to and what was simulated (the APD90 or the peak is a function of these)
Entry(conc, s, log) ==
  [conc |-> conc, D |-> s.start.D, gKr |-> s.constants.gKr,
   pulses |-> IF log.folded THEN Len(log.pulses) ELSE 1]

\* the script as it starts: the IKr model loaded, the first loop ahead
ScriptStart(drug) ==
  [status |-> "running", drug |-> drug, phase |-> "SD_current", i |-> 1,
   half |-> "SD", peaks |-> <<>>, estimates |-> <<>>,
   APD_trapping |-> <<>>, APD_conductance |-> <<>>]

SweepInit ==
  /\ \E m \in LoadedModels : Construct(m)
  /\ \E drug \in ScriptDrugs : script = ScriptStart(drug)
  /\ sa = SAIdle
  /\ first = NoFirst
  /\ analysis = NoAnalysis
  /\ lookup = NoLookup

\* an exception that nothing catches ends the script
Aborted(sc) == [sc EXCEPT !.status = "aborted"]

\* after the detailed model's simulation of concentration i
AfterSD(sc, e) ==
  IF sc.phase = "SD_current"
  THEN [sc EXCEPT !.peaks = Append(@, e), !.i = @ + 1]
  ELSE [sc EXCEPT !.APD_trapping = Append(@, e), !.half = "CS"]

\* after the simplified model's simulation of concentration i
AfterCS(sc, e) ==
  IF sc.phase = "CS_current"
  THEN [sc EXCEPT !.i = @ + 1]
  ELSE [sc EXCEPT !.APD_conductance = Append(@, e), !.half = "SD",
                  !.i = @ + 1]

\* one drug_simulation of a loop, with what follows it in the loop's body
SweepSD ==
  /\ script.status = "running" /\ script.half = "SD"
  /\ script.i <= Len(GridOf(script))
  /\ \E fail \in Fails :
       LET conc == GridOf(script)[script.i]
           a == [NoArgs EXCEPT !.mode = "drug_simulation",
                   !.drug = script.drug, !.drug_conc = conc,
                   !.repeats = RepeatsSD(script),
                   !.save_signal = SaveSignalOf(script),
                   !.tol = TolOf(script)]
           r == drug_simulation(model, sim, original_constants, a, fail)
       IN  /\ DriverStep(a, r)
           /\ script' = IF r.ret.kind = "error" THEN Aborted(script)
                        ELSE AfterSD(script, Entry(conc, r.sim, r.ret.log))
  /\ UNCHANGED <<sa, first, analysis, lookup>>

\* one conductance_simulation of a loop, with what follows it
SweepCS ==
  /\ script.status = "running" /\ script.half = "CS"
  /\ script.i <= Len(GridOf(script))
  /\ \E fail \in Fails :
       LET conc == GridOf(script)[script.i]
           a == [NoArgs EXCEPT !.mode = "conductance_simulation",
                   !.conductance =
                      ScaledConductance(script.estimates, conc),
                   !.repeats = script_repeats,
                   !.save_signal = SaveSignalOf(script),
                   !.tol = TolOf(script)]
           r == conductance_simulation(model, sim, original_constants, a,
                                       fail)
       IN  /\ DriverStep(a, r)
           /\ script' = IF r.ret.kind = "error" THEN Aborted(script)
                        ELSE AfterCS(script, Entry(conc, r.sim, r.ret.log))
  /\ UNCHANGED <<sa, first, analysis, lookup>>

\* the code between two loops, and after the last
SweepBetween ==
  /\ script.status = "running"
  /\ script.i > Len(GridOf(script))
  /\ \/ /\ script.phase = "SD_current"
        \* peaks normalised, Hill curve fitted or read from its file
        /\ script' = [script EXCEPT !.phase = "CS_current", !.i = 1,
                        !.half = "CS", !.estimates = <<"Hill_coef", "IC50">>]
        /\ UNCHANGED <<model, original_constants, initial_state, sim, call,
                       ret, obj>>
     \/ /\ script.phase = "CS_current"
        \* the AP model loaded, a second driver made for it
        /\ \E m \in LoadedModels :
             LET d == BindingKinetics(m)
             IN  /\ model' = d.model
                 /\ sim' = d.sim
                 /\ initial_state' = d.initial_state
                 /\ original_constants' = d.original_constants
        /\ call' = NoArgs /\ ret' = NoReturn /\ obj' = None
        /\ script' = [script EXCEPT !.phase = "AP_pulses", !.i = 1,
                        !.half = "SD"]
     \/ /\ script.phase = "AP_pulses"
        /\ script' = [script EXCEPT !.phase = "APD_fine", !.i = 1,
                        !.half = "SD", !.APD_trapping = <<>>,
                        !.APD_conductance = <<>>]
        /\ UNCHANGED <<model, original_constants, initial_state, sim, call,
                       ret, obj>>
     \/ /\ script.phase = "APD_fine"
        /\ script' = [script EXCEPT !.status = "done"]
        /\ UNCHANGED <<model, original_constants, initial_state, sim, call,
                       ret, obj>>
  /\ UNCHANGED <<sa, first, analysis, lookup>>

SweepNext == SweepSD \/ SweepCS \/ SweepBetween

SpecSweep == SweepInit /\ [][SweepNext]_vars

\* ------------------------------------------------------------ SA_drugs.py
\* BindingParameters.drug_compounds
drug_compounds ==
  <<"dofetilide", "bepridil", "terfenadine", "cisapride", "verapamil",
    "ranolazine", "quinidine", "sotalol", "chlorpromazine", "ondansetron",
    "diltiazem", "mexiletine", "droperidol">>

\* the number of concentrations of the action-potential sweep
APD_points == 20

\* how many of the listed drugs a run of the model sweeps over
MaxDrugs == 4

\* what ComparisonController.compute_Hill gives back: the coefficients, or
\* a string when no Hill curve could be fitted; with either, the
\* concentrations simulated and the normalised peaks
HillOutcomes ==
  {[kind |-> "coefs", coefs |-> <<"Hill_coef", "IC50">>,
    drug_conc_Hill |-> <<0, 1, 2>>, peaks_norm |-> <<"1", "0.5", "0">>],
   [kind |-> "str", coefs |-> <<>>,
    drug_conc_Hill |-> <<0, 1, 2>>, peaks_norm |-> <<"1", "1", "1">>]}

\* what ComparisonController.APD_sim gives back: the two APD90 sequences,
\* all numbers, or with a not-a-number where no crossing was found
APDOutcomes ==
  {[APD_trapping |-> [k \in 1..APD_points |-> "num"],
    APD_conductance |-> [k \in 1..APD_points |-> "num"]],
   [APD_trapping |-> [k \in 1..APD_points |->
                        IF k = APD_points THEN "nan" ELSE "num"],
    APD_conductance |-> [k \in 1..APD_points |-> "num"]]}

\* compute_RMSE and compute_ME: not-a-number when either sequence holds one
ErrorMetric(x, y) ==
  IF \E k \in 1..Len(x) : x[k] = "nan" \/ y[k] = "nan" THEN "nan" ELSE "num"

\* a slip of FitFailed: the failure marker not recognised
FitFailedNever(h) == FALSE

\* isinstance(Hill_curve_coefs, str)
FitFailed(h) == h.kind = "str"

\* the parameter values of a drug, in the order of param_names
ParamValues(drug) ==
  LET p == binding_parameters[drug]
  IN  [Vhalf |-> p.Vhalf, Kmax |-> p.Kmax, Ku |-> p.Ku, N |-> p.N,
       EC50 |-> p.EC50]

\* param_evaluation(param_values, drug): the row it returns, and how many
\* action-potential sweeps (APD_sim) it ran
param_evaluation(param_values, drug, h, apd) ==
  LET orig_half_effect_conc == param_values.EC50
      normalised == [param_values EXCEPT !.EC50 = "1"]
      restored   == [normalised EXCEPT !.EC50 = orig_half_effect_conc]
      nans       == [k \in 1..APD_points |-> "nan"]
      failed     == FitFailed(h)
  IN  [row |->
         [drug |-> drug,
          drug_conc_Hill |-> h.drug_conc_Hill,
          peak_current |-> h.peaks_norm,
          Hill_curve |-> IF failed THEN <<"nan", "nan">> ELSE h.coefs,
          param_values |-> restored,
          APD_trapping |-> IF failed THEN nans ELSE apd.APD_trapping,
          APD_conductance |-> IF failed THEN nans ELSE apd.APD_conductance,
          RMSE |-> IF failed THEN "nan"
                   ELSE ErrorMetric(apd.APD_trapping, apd.APD_conductance),
          ME |-> IF failed THEN "nan"
                 ELSE ErrorMetric(apd.APD_trapping, apd.APD_conductance)],
       ap_sims |-> IF failed THEN 0 ELSE 1]

\* the drugs of a results file
RanDrugs(file) == {file.rows[k].drug : k \in 1..Len(file.rows)}

\* a slip of Remaining: the drugs of the results file not taken out
RemainingAll(file) == SubSeq(drug_compounds, 1, MaxDrugs)

\* [i for i in drug_list if i not in ran_drugs], over the drugs swept
Remaining(file) ==
  SelectSeq(SubSeq(drug_compounds, 1, MaxDrugs),
            LAMBDA d : d \notin RanDrugs(file))

\* the script as it starts with a results file (absent: no rows)
SAStart(file) ==
  [status |-> "running", file |-> file, drug_list |-> Remaining(file),
   k |-> 1, hill |-> "none", ap_sims |-> 0]

NoFile == [exists |-> FALSE, rows |-> <<>>]

SAInit ==
  /\ \E m \in LoadedModels : Construct(m)
  /\ script = ScriptIdle
  /\ sa = SAStart(NoFile)
  /\ first = NoFirst
  /\ analysis = NoAnalysis
  /\ lookup = NoLookup

\* one pass of the loop over drug_list: the drug evaluated, the file
\* rewritten with the row added
SAEvaluate ==
  /\ sa.status = "running" /\ sa.k <= Len(sa.drug_list)
  /\ \E h \in HillOutcomes, apd \in APDOutcomes :
       LET drug == sa.drug_list[sa.k]
           e    == param_evaluation(ParamValues(drug), drug, h, apd)
           rows == IF sa.file.exists THEN Append(sa.file.rows, e.row)
                   ELSE <<e.row>>
       IN  sa' = [sa EXCEPT !.file = [exists |-> TRUE, rows |-> rows],
                            !.k = @ + 1, !.hill = h.kind,
                            !.ap_sims = e.ap_sims]
  /\ UNCHANGED <<model, original_constants, initial_state, sim, call, ret,
                 obj, script, first, analysis, lookup>>

\* the loop is through
SAFinish ==
  /\ sa.status = "running" /\ sa.k > Len(sa.drug_list)
  /\ sa' = [sa EXCEPT !.status = "done"]
  /\ UNCHANGED <<model, original_constants, initial_state, sim, call, ret,
                 obj, script, first, analysis, lookup>>

\* the script stopped between two drugs, or after the last, and run again
SARerun ==
  /\ sa.status \in {"running", "done"}
  /\ sa' = SAStart(sa.file)
  /\ UNCHANGED <<model, original_constants, initial_state, sim, call, ret,
                 obj, script, first, analysis, lookup>>

SANext == SAEvaluate \/ SAFinish \/ SARerun

SpecSA == SAInit /\ [][SANext]_vars

\* ------------------------------------------------- properties: the driver
Last(q) == q[Len(q)]

ThreeModes == {"drug_simulation", "custom_simulation",
               "conductance_simulation"}

DrugNameModes == {"drug_simulation", "drug_APclamp",
                  "drug_multiion_simulation"}

DrugDrivenModes == DrugNameModes \cup {"custom_simulation"}

\* the latest call got past the lookup of its drug: it made a solver
Configured == call.mode # "none" /\ ret.error # "KeyError"

\* the period the latest call paced with
TMax(c) ==
  IF c.mode = "drug_simulation" /\ c.protocol_period # <<>>
  THEN c.protocol_period[1]
  ELSE IF c.mode = "drug_APclamp" THEN c.t_max ELSE characteristic_time

\* the state a call without a starting state begins from, by its own
\* arguments and the model's original values alone
OwnStart(c) ==
  IF c.mode = "conductance_simulation" THEN initial_state
  ELSE [initial_state EXCEPT !.D = c.drug_conc]

\* the time a log spans
LogSpan(log, timestep) ==
  IF log.folded THEN Len(log.pulses) * Len(log.time) * timestep
  ELSE Len(log.time) * timestep

\* C1: calls on one driver are independent and order-insensitive: a call
\* of one of the three modes made without a starting state begins from a
\* solver state fixed by its own arguments and the model's original
\* values, never by an earlier call (conductance_simulation begins from the
\* model's original state, ikr.D included, whatever ran before).
C1_OrderInsensitive ==
  (call.mode \in ThreeModes /\ Configured /\ ~Truthy(call.set_state))
    => sim.start = OwnStart(call)

C3_OriginalsRestored ==
  (call.mode = "conductance_simulation")
    => /\ sim.constants.Vhalf = original_constants.Vhalf
       /\ sim.constants.Kmax = original_constants.Kmax
       /\ sim.constants.Ku = original_constants.Ku
       /\ sim.constants.n = original_constants.n
       /\ sim.constants.halfmax = original_constants.EC50
       /\ sim.constants.gKr = call.conductance
       /\ original_constants.Vhalf = "model.Vhalf"
       /\ original_constants.Kmax = "model.Kmax"
       /\ original_constants.Ku = "model.Ku"
       /\ original_constants.n = "model.n"
       /\ original_constants.EC50 = "model.halfmax"
       /\ \A d \in KnownDrugs :
            /\ sim.constants.Vhalf # binding_parameters[d].Vhalf
            /\ sim.constants.Kmax # binding_parameters[d].Kmax
            /\ sim.constants.Ku # binding_parameters[d].Ku

\* a conductance simulation made after a drug simulation at a
\* concentration other than the model's
C3_Witness ==
  /\ call.mode = "conductance_simulation" /\ ret.kind = "log"
  /\ model.D # initial_state.D

\* C4: the drug-driven modes install Kt as exactly 3.5e-5 and gKr as the
\* model's original conductance, for every drug of the library and every
\* custom tuple, whatever the concentration and the earlier calls.
C4_FixedTraffickingRate ==
  /\ (call.mode \in DrugDrivenModes /\ Configured)
       => /\ sim.constants.Kt = "3.5e-5"
          /\ sim.constants.gKr = original_constants.gKr
          /\ original_constants.gKr = "model.gKr"
  /\ \A d \in KnownDrugs :
       LET p == binding_parameters[d]
           s == InstallDrug(sim, p.Vhalf, p.Kmax, p.Ku, p.N, p.EC50,
                            original_constants)
       IN  s.constants.Kt = "3.5e-5" /\ s.constants.gKr = "model.gKr"

\* a custom simulation made after a conductance simulation had installed
\* another Kt and another gKr
C4_Witness ==
  /\ call.mode = "custom_simulation" /\ ret.kind = "log"
  /\ call.drug_conc = MaxConc
  /\ original_constants.Kt # "3.5e-5"

\* C5: a drug name the library does not hold makes drug_simulation,
\* drug_APclamp and drug_multiion_simulation fail with an error and no
\* log, before ikr.D of the model is written and before a solver is made,
\* configured or advanced.
C5_UnknownDrugFailsFirst ==
  [][(call'.mode \in DrugNameModes
        /\ call'.drug \notin DOMAIN binding_parameters)
      => /\ ret'.kind = "error" /\ ret'.log = NoLog
         /\ model' = model
         /\ sim' = sim]_vars

\* an unknown name given at a concentration the model does not hold, with
\* the solver of an earlier call still in the driver
C5_Witness ==
  /\ call.mode = "drug_simulation" /\ call.drug = "aspirin"
  /\ ret.error = "KeyError"
  /\ model.D # call.drug_conc
  /\ sim.run_time > 0

\* C6: when the solver raises while pre-pacing or recording, the call ends
\* with an error and gives no log, never a partial or zero-filled one.
C6_SolverFailureRaises ==
  /\ sim.failed => (ret.kind = "error" /\ ret.log = NoLog)
  /\ (ret.kind = "log" /\ call.mode \in ThreeModes)
       => /\ ~sim.failed
          /\ LogSpan(ret.log, call.timestep) = TMax(call) * call.save_signal

\* the solver raised while recording
C6_Witness ==
  /\ call.mode = "drug_simulation" /\ sim.failed
  /\ Last(sim.ops).op = "run" /\ ret.error = "SimulationError"

\* C9: with a starting state, drug_simulation starts the solver from it
\* with ikr.D alone overridden by drug_conc; without one, from the model's
\* declared initial state with ikr.D equal to drug_conc.
C9_StartingState ==
  (call.mode = "drug_simulation" /\ Configured)
    => IF call.set_state.kind = "log"
       THEN sim.start = [D |-> call.drug_conc, V |-> Last(call.set_state.V)]
       ELSE sim.start = [D |-> call.drug_conc, V |-> initial_state.V]

\* a starting state whose last ikr.D differs from drug_conc and whose
\* other component differs from the model's
C9_Witness ==
  /\ call.mode = "drug_simulation" /\ ret.kind = "log"
  /\ call.set_state.kind = "log"
  /\ Last(call.set_state.D) # call.drug_conc
  /\ sim.start.V # initial_state.V

Collected(sc) ==
  IF sc.phase = "SD_current" THEN sc.peaks
  ELSE IF call.mode = "drug_simulation" THEN sc.APD_trapping
  ELSE sc.APD_conductance

\* C7: when the solver fails for one concentration of a sweep, that
\* concentration's entry alone is affected and the sweep goes on to the
\* remaining concentrations: the failure does not abort the sweep.
C7_SweepSurvivesFailure ==
  (script.status # "idle" /\ sim.failed)
    => /\ script.status = "running"
       /\ script.phase # "CS_current"
            => /\ Len(Collected(script)) > 0
               /\ Last(Collected(script)).conc = GridOf(script)[script.i]

\* the last row of the results file: the row of the drug evaluated last
LastRow == Last(sa.file.rows)

\* C8: when compute_Hill gives the failure marker, param_evaluation runs
\* no action-potential simulation, reports both Hill coefficients, every
\* APD90 of both models, the RMSE and the ME as not-a-number, and
\* completes: its row is written.
C8_FitFailureGivesNaN ==
  (sa.status # "idle" /\ sa.hill = "str")
    => /\ sa.ap_sims = 0
       /\ sa.status \in {"running", "done"}
       /\ sa.file.exists /\ Len(sa.file.rows) > 0
       /\ LastRow.Hill_curve = <<"nan", "nan">>
       /\ Len(LastRow.APD_trapping) = 20
       /\ Len(LastRow.APD_conductance) = 20
       /\ \A k \in 1..20 :
            /\ LastRow.APD_trapping[k] = "nan"
            /\ LastRow.APD_conductance[k] = "nan"
       /\ LastRow.RMSE = "nan"
       /\ LastRow.ME = "nan"

\* a failed fit for a drug evaluated after another drug's fit succeeded
C8_Witness ==
  /\ sa.status = "running" /\ sa.hill = "str"
  /\ Len(sa.file.rows) = 2
  /\ sa.file.rows[1].RMSE = "num"
  /\ LastRow.RMSE = "nan" /\ LastRow.drug = "bepridil"

\* ------------------------------------------ one call made twice in a row
\* A call made before the pair, so that the pair finds the driver as an
\* earlier simulation left it: ikr.D of self.model at another concentration
\* and another solver in self.sim.
RepeatPrepare ==
  /\ first.stage = "none" /\ call.mode = "none"
  /\ \E c \in Concs, g \in Conductances :
       \/ LET a == [NoArgs EXCEPT !.mode = "drug_simulation",
                      !.drug = "verapamil", !.drug_conc = c]
          IN  DriverStep(a, drug_simulation(model, sim, original_constants,
                                            a, "none"))
       \/ LET a == [NoArgs EXCEPT !.mode = "conductance_simulation",
                      !.conductance = g]
          IN  DriverStep(a, conductance_simulation(model, sim,
                                                   original_constants, a,
                                                   "none"))
  /\ first' = [stage |-> "prepared"]
  /\ UNCHANGED <<script, sa, analysis, lookup>>

\* the first call of the pair; what it gave is kept for the comparison
RepeatFirst ==
  /\ first.stage \in {"none", "prepared"}
  /\ \E drug \in DrugInputs, c \in Concs, rs \in Pulses, cfg \in Configs,
        o \in StartObjects, pp \in ProtocolPeriods, fail \in Fails :
       LET a == [NoArgs EXCEPT !.mode = "drug_simulation", !.drug = drug,
                   !.drug_conc = c, !.repeats = rs[1], !.save_signal = rs[2],
                   !.timestep = cfg.timestep, !.tol = cfg.tol,
                   !.set_state = o, !.protocol_period = pp]
           r == drug_simulation(model, sim, original_constants, a, fail)
       IN  /\ Plain(drug, c, rs, o, pp)
           /\ DriverStep(a, r)
           /\ first' = [stage |-> "first", fail |-> fail, D0 |-> model.D,
                        model |-> r.model, sim |-> r.sim, ret |-> r.ret]
  /\ UNCHANGED <<script, sa, analysis, lookup>>

\* the same call again: the same arguments (the starting-state object is
\* the caller's object, as the first call left it) and the same solver
RepeatSecond ==
  /\ first.stage = "first"
  /\ LET a == [call EXCEPT !.set_state = obj]
     IN  DriverStep(a, drug_simulation(model, sim, original_constants, a,
                                       first.fail))
  /\ first' = [first EXCEPT !.stage = "second"]
  /\ UNCHANGED <<script, sa, analysis, lookup>>

RepeatNext == RepeatPrepare \/ RepeatFirst \/ RepeatSecond

SpecRepeat == Init /\ [][RepeatNext]_vars

\* C11: drug_simulation called twice in a row with the same arguments gives
\* the same log: the second call starts from the same solver state,
\* installs the same constants and integrates over the same durations as
\* the first.
C11_SameCallSameLog ==
  first.stage = "second"
    => /\ ret = first.ret
       /\ sim = first.sim
       /\ model = first.model

\* the pair was made on a driver whose model an earlier call had left at
\* another concentration, with a starting state, and gave a log
C11_Witness ==
  /\ first.stage = "second"
  /\ first.D0 # call.drug_conc
  /\ Truthy(call.set_state)
  /\ ret.kind = "log"
  /\ sim.start.D = call.drug_conc

\* ------------------------------------------------------- signal analysis
\* The post-processing methods are functions of the series they are given.
\* Samples are integers; what the methods compute from them (thresholds,
\* interpolated times, ratios) are fractions num / den with den > 0, in
\* exact arithmetic.
Frac(n, d) ==
  IF d < 0 THEN [num |-> 0 - n, den |-> 0 - d] ELSE [num |-> n, den |-> d]

Whole(n) == [num |-> n, den |-> 1]

FracAdd(a, b) == [num |-> a.num * b.den + b.num * a.den, den |-> a.den * b.den]

FracSub(a, b) == [num |-> a.num * b.den - b.num * a.den, den |-> a.den * b.den]

FracMul(a, b) == [num |-> a.num * b.num, den |-> a.den * b.den]

\* a / b for b # 0
FracDiv(a, b) == Frac(a.num * b.den, a.den * b.num)

FracLt(a, b) == a.num * b.den < b.num * a.den

FracLe(a, b) == a.num * b.den <= b.num * a.den

FracEq(a, b) == a.num * b.den = b.num * a.den

FracAbs(a) == IF a.num < 0 THEN [a EXCEPT !.num = 0 - a.num] ELSE a

\* Python's int(x): the fraction dropped, towards zero
int(a) ==
  IF a.num >= 0 THEN a.num \div a.den ELSE 0 - ((0 - a.num) \div a.den)

\* Python's round(x): the nearest integer, a tie to the even one
round(a) ==
  LET f  == a.num \div a.den
      r2 == 2 * (a.num - f * a.den)
  IN  IF r2 < a.den THEN f
      ELSE IF r2 > a.den THEN f + 1
      ELSE IF f % 2 = 0 THEN f ELSE f + 1

Values(series) == {series[k] : k \in 1..Len(series)}

\* max(series) and min(series) of a series that is not empty
Max(S) == CHOOSE x \in S : \A y \in S : y <= x

\* series[a:b] with Python's 0-based, clipped bounds (0 <= a)
Slice(series, a, b) ==
  LET hi == IF b < Len(series) THEN b ELSE Len(series)
  IN  IF a >= hi THEN <<>> ELSE SubSeq(series, a + 1, hi)

\* series[a:]
SliceFrom(series, a) == Slice(series, a, Len(series))

\* what a method gives for one quantity: a number, not-a-number, or a value
\* that is not finite
Num(a) == [kind |-> "num", num |-> a.num, den |-> a.den]

NaN == [kind |-> "nan", num |-> 0, den |-> 1]

Inf == [kind |-> "inf", num |-> 0, den |-> 1]

\* a slip of np_max: the last sample taken for the peak
np_maxLast(series) == series[Len(series)]

\* np.max(series)
np_max(series) == Max(Values(series))

\* len(signal_log.keys_like(current_name)): a folded log has one key per
\* pulse, a flat log none
keys_like(signal_log) == Len(signal_log.pulses)

\* a slip of peak_reduction: the test of peaks[0] left out, so that numpy
\* divides by zero
peak_reductionUnguarded(peaks) ==
  IF peaks[1] = 0 THEN NaN
  ELSE Num(Frac(peaks[1] - peaks[Len(peaks)], peaks[1]))

\* the ratio (peaks[0] - peaks[-1]) / peaks[0], and 0 for peaks[0] == 0
peak_reduction(peaks) ==
  IF peaks[1] = 0 THEN Num(Whole(0))
  ELSE Num(Frac(peaks[1] - peaks[Len(peaks)], peaks[1]))

extract_peak(signal_log) ==
  LET pulses == keys_like(signal_log)
      peaks  == IF pulses = 0 THEN <<np_max(signal_log.V)>>
                ELSE [i \in 1..pulses |-> np_max(signal_log.pulses[i])]
  IN  [peaks |-> peaks, peak_reduction |-> peak_reduction(peaks)]

\* APD90_v = min(signal) + 0.1 * APA
Threshold(signal) ==
  LET lo == Min(Values(signal))
      hi == Max(Values(signal))
  IN  Frac(10 * lo + (hi - lo), 10)

\* |signal[k] - APD90_v|
Distance(signal, k) == FracAbs(FracSub(Whole(signal[k]), Threshold(signal)))

\* a slip of argmin: the last of the closest samples
argminLast(signal) ==
  (CHOOSE k \in 1..Len(signal) :
     /\ \A j \in 1..Len(signal) : FracLe(Distance(signal, k),
                                         Distance(signal, j))
     /\ \A j \in (k + 1)..Len(signal) : FracLt(Distance(signal, k),
                                               Distance(signal, j))) - 1

\* np.abs(np.array(signal) - APD90_v).argmin(): the first index (from 0)
\* of the least distance
argmin(signal) ==
  (CHOOSE k \in 1..Len(signal) :
     /\ \A j \in 1..Len(signal) : FracLe(Distance(signal, k),
                                         Distance(signal, j))
     /\ \A j \in 1..(k - 1) : FracLt(Distance(signal, k),
                                     Distance(signal, j))) - 1

\* a slip of TooShort: a negative duration replaced only
TooShortNegative(d) == FracLt(d, Whole(0))

\* if APD90 < 1
TooShort(d) == FracLt(d, Whole(1))

\* APD90(signal, offset, timestep)
APD90(signal, offset, timestep) ==
  LET index == argmin(signal)
      d     == FracSub(FracMul(Whole(index), timestep), Whole(offset))
  IN  IF TooShort(d) THEN Num(FracMul(Whole(Len(signal)), timestep))
      ELSE Num(d)

\* timestep = (max(time_signal) - min(time_signal)) / len(time_signal)
Timestep(time_signal) ==
  Frac(Max(Values(time_signal)) - Min(Values(time_signal)), Len(time_signal))

\* pulse_num = round(len(Vm_signal) / len(time_signal))
pulse_num(time_signal, Vm_signal) ==
  round(Frac(Len(Vm_signal), Len(time_signal)))

\* the bounds of the slice AP_Vm of pulse i (from 0)
Window(time_signal, offset, protocol_duration, i) ==
  LET timestep == Timestep(time_signal)
  IN  <<round(FracDiv(Whole(i * protocol_duration), timestep)),
        round(FracDiv(Whole((i + 1) * (protocol_duration + offset)),
                      timestep))>>

\* the time after offset in which no crossing is looked for
RefractoryWindow == 5

\* min_APD = int(5 / timestep)
min_APD(time_signal) ==
  int(FracDiv(Whole(RefractoryWindow), Timestep(time_signal)))

\* offset_index = int(offset / timestep)
offset_index(time_signal, offset) ==
  int(FracDiv(Whole(offset), Timestep(time_signal)))

\* what one pass of the loop over the pulses leaves: the value appended to
\* APD90s or the exception raised, with the slice's bounds, the index of
\* the sample the scan stopped at and the times it computed
PulseResult(kind, error, w, found, at, start_time, end_time) ==
  [kind |-> kind, error |-> error, window |-> w, found |-> found,
   at |-> at, start_time |-> start_time, end_time |-> end_time,
   value |-> FracSub(end_time, Whole(start_time))]

\* series[k:][ind - 1]: the entry before ind (from 0) of the part scanned;
\* for ind = 0 the index -1 names the last entry.  <<>> where Python raises
\* IndexError
Previous(scanned, ind) ==
  IF ind = 0
  THEN IF scanned = <<>> THEN <<>> ELSE <<scanned[Len(scanned)]>>
  ELSE IF ind > Len(scanned) THEN <<>> ELSE <<scanned[ind]>>

\* series[k:][ind]
Current(scanned, ind) ==
  IF ind + 1 > Len(scanned) THEN <<>> ELSE <<scanned[ind + 1]>>

\* the body of the loop for pulse i (from 0).  arrays says whether the
\* series are numpy arrays, for which a division by zero gives a value that
\* is not finite, or lists, for which it raises
APD90_pulse(time_signal, Vm_signal, offset, protocol_duration, i, arrays) ==
  LET w     == Window(time_signal, offset, protocol_duration, i)
      AP_Vm == Slice(Vm_signal, w[1], w[2])
      oi    == offset_index(time_signal, offset)
      k     == oi + min_APD(time_signal)
      scanV == SliceFrom(AP_Vm, k)
      scanT == SliceFrom(time_signal, k)
      thr   == Threshold(AP_Vm)
      below == {j \in 1..Len(scanV) : FracLt(Whole(scanV[j]), thr)}
      ind   == Min(below) - 1
      tp    == Previous(scanT, ind)
      vp    == Previous(scanV, ind)
      tc    == Current(scanT, ind)
      v     == scanV[ind + 1]
      start == time_signal[oi + 1]
      end   == FracAdd(Whole(tp[1]),
                       FracMul(FracDiv(FracSub(thr, Whole(vp[1])),
                                       Whole(v - vp[1])),
                               Whole(tc[1] - tp[1])))
  IN  IF AP_Vm = <<>>
      THEN PulseResult("error", "ValueError", w, FALSE, 0, 0, Whole(0))
      ELSE IF oi >= Len(time_signal)
      THEN PulseResult("error", "IndexError", w, FALSE, 0, 0, Whole(0))
      ELSE IF below = {}
      THEN PulseResult("nan", "", w, FALSE, 0, start, Whole(0))
      ELSE IF tp = <<>> \/ vp = <<>> \/ tc = <<>>
      THEN PulseResult("error", "IndexError", w, TRUE, k + ind, start,
                       Whole(0))
      ELSE IF v = vp[1]
      THEN IF arrays
           THEN PulseResult("inf", "", w, TRUE, k + ind, start, Whole(0))
           ELSE PulseResult("error", "ZeroDivisionError", w, TRUE, k + ind,
                            start, Whole(0))
      ELSE PulseResult("num", "", w, TRUE, k + ind, start, end)

\* APD90_update(time_signal, Vm_signal, offset, protocol_duration): the
\* list APD90s, or the first exception of the loop
APD90_update(time_signal, Vm_signal, offset, protocol_duration, arrays) ==
  LET n      == pulse_num(time_signal, Vm_signal)
      passes == [i \in 1..n |->
                   APD90_pulse(time_signal, Vm_signal, offset,
                               protocol_duration, i - 1, arrays)]
      errors == {i \in 1..n : passes[i].kind = "error"}
  IN  IF errors = {}
      THEN [kind |-> "list", error |-> "", passes |-> passes,
            APD90s |-> [i \in 1..n |->
                          IF passes[i].kind = "num"
                          THEN Num(passes[i].value)
                          ELSE IF passes[i].kind = "nan" THEN NaN ELSE Inf]]
      ELSE [kind |-> "error", error |-> passes[Min(errors)].error,
            passes |-> SubSeq(passes, 1, Min(errors)), APD90s |-> <<>>]

\* ------------------------------------------- the signals the methods get
\* samples in a recorded period
PulseLen == 7

\* recorded periods in a log
MaxPulses == 2

\* the longest decay of a manufactured trace
MaxDecay == 10

\* levels of a recorded variable: rest, just above rest, and the plateau
Levels == {0, 1, 20}

\* one recorded period: a level held, then the last two samples
PulseShapes ==
  {[k \in 1..PulseLen |->
      IF k <= PulseLen - 2 THEN p ELSE IF k = PulseLen - 1 THEN x ELSE y] :
     p \in {0, 20}, x \in {0, 20}, y \in Levels}

RECURSIVE Concat(_)
Concat(parts) ==
  IF parts = <<>> THEN <<>> ELSE Head(parts) \o Concat(Tail(parts))

\* the log of a run that recorded the periods given, one sample per time
\* unit: folded when there are several, with the time base of one period,
\* V being the recording as sim.run gave it
SignalLog(periods) ==
  [folded |-> Len(periods) > 1,
   time |-> [k \in 1..PulseLen |-> k - 1],
   V |-> Concat(periods),
   pulses |-> IF Len(periods) > 1 THEN periods ELSE <<>>,
   decay |-> 0]

\* a manufactured trace of one period: +40 at t = 0, falling on a straight
\* line to -80 at t = D, then at -80 for rest more samples.  The samples
\* are the voltages times D, which leaves every crossing time as it is.
\* No decay is shorter than the refractory window.
DecayLog(D, rest) ==
  [folded |-> FALSE,
   time |-> [k \in 1..(D + 1 + rest) |-> k - 1],
   V |-> [k \in 1..(D + 1 + rest) |->
            IF k - 1 <= D THEN 40 * D - 120 * (k - 1) ELSE 0 - 80 * D],
   pulses |-> <<>>,
   decay |-> D]

SignalLogs ==
  UNION {{SignalLog(ps) : ps \in [1..n -> PulseShapes]} : n \in 1..MaxPulses}
  \cup {DecayLog(D, rest) : D \in RefractoryWindow..MaxDecay, rest \in {0, 2}}

\* the recorded periods of a log
PulsesOf(log) == IF log.folded THEN log.pulses ELSE <<log.V>>

\* offsets given to the methods, in time units
Offsets == {0, 1}

\* timestep arguments of APD90: 0.1 as in the scripts, 0.5 and 1
Timesteps == {Frac(1, 10), Frac(1, 2), Whole(1)}

SignalInit ==
  /\ \E m \in LoadedModels : Construct(m)
  /\ script = ScriptIdle
  /\ sa = SAIdle
  /\ first = NoFirst
  /\ \E log \in SignalLogs : analysis = [fn |-> "none", log |-> log]
  /\ lookup = NoLookup

Analysed(r) ==
  /\ analysis' = r
  /\ UNCHANGED <<model, original_constants, initial_state, sim, call, ret,
                 obj, script, sa, first, lookup>>

CallExtractPeak ==
  /\ analysis.fn = "none"
  /\ Analysed([fn |-> "extract_peak", log |-> analysis.log,
               out |-> extract_peak(analysis.log)])

\* the series of one recorded pulse given, as the scripts do
CallAPD90 ==
  /\ analysis.fn = "none"
  /\ \E i \in 1..Len(PulsesOf(analysis.log)), offset \in Offsets,
        timestep \in Timesteps :
       Analysed([fn |-> "APD90",
                 signal |-> PulsesOf(analysis.log)[i], offset |-> offset,
                 timestep |-> timestep,
                 out |-> APD90(PulsesOf(analysis.log)[i], offset,
                               timestep)])

\* protocol_duration is the period the time base covers
CallAPD90Update ==
  /\ analysis.fn = "none"
  /\ \E offset \in Offsets, arrays \in BOOLEAN :
       Analysed([fn |-> "APD90_update", log |-> analysis.log,
                 offset |-> offset, arrays |-> arrays,
                 protocol_duration |-> Len(analysis.log.time),
                 out |-> APD90_update(analysis.log.time, analysis.log.V,
                                      offset, Len(analysis.log.time),
                                      arrays)])

SignalNext == CallExtractPeak \/ CallAPD90 \/ CallAPD90Update

SpecSignal == SignalInit /\ [][SignalNext]_vars

\* ------------------------------------------- properties of the analysis
\* the recorded periods of the log a method was given
GivenPulses == PulsesOf(analysis.log)

\* no sample of a period at or after offset + 5 time units is below the
\* period's own threshold
NoCrossing(pulse, time, offset) ==
  \A j \in 1..Len(pulse) :
    time[j] >= offset + RefractoryWindow
      => ~FracLt(Whole(pulse[j]), Threshold(pulse))

\* C12: a pulse with no sample below the 10%-repolarization threshold after
\* the refractory window makes APD90_update raise nothing and gives
\* not-a-number for that pulse.
C12_NoCrossingGivesNaN ==
  analysis.fn = "APD90_update"
    => \A i \in 1..Len(GivenPulses) :
         NoCrossing(GivenPulses[i], analysis.log.time, analysis.offset)
           => /\ ~(analysis.out.kind = "error"
                   /\ Len(analysis.out.passes) = i)
              /\ analysis.out.kind = "list" => analysis.out.APD90s[i] = NaN

\* C13: a crossing time APD90_update computes lies between the time of the
\* first sample below the threshold that the scan met and the time of the
\* sample right before it, also when that sample is the first one scanned.
C13_CrossingBetweenNeighbours ==
  analysis.fn = "APD90_update"
    => \A i \in 1..Len(analysis.out.passes) :
         LET r == analysis.out.passes[i]
             t == analysis.log.time
         IN  r.kind = "num"
               => /\ r.at >= 1 /\ r.at + 1 <= Len(t)
                  /\ FracLe(Whole(t[r.at]), r.end_time)
                  /\ FracLe(r.end_time, Whole(t[r.at + 1]))

\* C14: APD90_update gives one value per recorded pulse, and the samples it
\* reads for pulse i are those of pulse i and no others.
C14_OwnPulseOnly ==
  analysis.fn = "APD90_update"
    => /\ analysis.out.kind = "list"
            => Len(analysis.out.APD90s) = Len(GivenPulses)
       /\ \A i \in 1..Len(analysis.out.passes) :
            LET w == analysis.out.passes[i].window
            IN  Slice(analysis.log.V, w[1], w[2]) = GivenPulses[i]

\* C15: for one pulse falling on a straight line from +40 to -80 over D,
\* sampled once per time unit, with offset 0, APD90_update gives a number
\* within one timestep of 0.9 D.
C15_DecayWithinTimestep ==
  (analysis.fn = "APD90_update" /\ analysis.log.decay > 0
   /\ analysis.offset = 0)
    => /\ analysis.out.kind = "list"
       /\ Len(analysis.out.APD90s) = 1
       /\ analysis.out.APD90s[1].kind = "num"
       /\ FracLe(FracAbs(FracSub(analysis.out.passes[1].value,
                                 Frac(9 * analysis.log.decay, 10))),
                 Whole(1))

\* C16: extract_peak gives one peak per recorded pulse, each the greatest
\* sample of its pulse, and for peaks[0] # 0 the reduction
\* (peaks[0] - peaks[-1]) / peaks[0].
C16_PeakPerPulse ==
  analysis.fn = "extract_peak"
    => LET peaks == analysis.out.peaks
           red   == analysis.out.peak_reduction
       IN  /\ Len(peaks) = Len(GivenPulses)
           /\ \A i \in 1..Len(GivenPulses) :
                /\ peaks[i] \in Values(GivenPulses[i])
                /\ \A v \in Values(GivenPulses[i]) : v <= peaks[i]
           /\ peaks[1] # 0
                => /\ red.kind = "num"
                   /\ red.num * peaks[1]
                        = (peaks[1] - peaks[Len(peaks)]) * red.den

\* a folded log whose first pulse does not end on its peak and whose last
\* pulse peaks lower
C16_Witness ==
  /\ analysis.fn = "extract_peak"
  /\ analysis.log.folded
  /\ analysis.out.peaks[1] = 20
  /\ analysis.out.peaks[Len(analysis.out.peaks)] = 1
  /\ Last(GivenPulses[1]) = 0
  /\ analysis.out.peak_reduction.num * 20 = 19 * analysis.out.peak_reduction.den

\* C17: when the first pulse peaks at 0, extract_peak gives the reduction
\* 0: a number, neither not-a-number nor an error, whatever the later peaks.
C17_ZeroFirstPeak ==
  (analysis.fn = "extract_peak" /\ Max(Values(GivenPulses[1])) = 0)
    => /\ analysis.out.peak_reduction.kind = "num"
       /\ analysis.out.peak_reduction.num = 0

\* the first pulse peaks at 0 and the last does not
C17_Witness ==
  /\ analysis.fn = "extract_peak"
  /\ Max(Values(GivenPulses[1])) = 0
  /\ Max(Values(Last(GivenPulses))) = 20
  /\ analysis.out.peak_reduction = Num(Whole(0))

\* the first index (from 0) of a sample of the signal closest to
\* min + 0.1 (max - min), and the duration measured from offset
NearestIndex(signal) ==
  LET lo   == Min(Values(signal))
      hi   == Max(Values(signal))
      d(k) == IF 10 * signal[k] >= 9 * lo + hi
              THEN 10 * signal[k] - (9 * lo + hi)
              ELSE (9 * lo + hi) - 10 * signal[k]
  IN  Min({k \in 1..Len(signal) : \A j \in 1..Len(signal) : d(k) <= d(j)})
        - 1

NearestDuration ==
  FracSub(FracMul(Whole(NearestIndex(analysis.signal)), analysis.timestep),
          Whole(analysis.offset))

\* C18: when the duration from offset to the first sample closest to the
\* threshold is at least 1 time unit, APD90 gives that duration.
C18_NearestSample ==
  (analysis.fn = "APD90" /\ FracLe(Whole(1), NearestDuration))
    => /\ analysis.out.kind = "num"
       /\ FracEq(analysis.out, NearestDuration)

\* two samples are equally close to the threshold, the first of them at
\* least 1 time unit after offset
C18_Witness ==
  /\ analysis.fn = "APD90"
  /\ FracLe(Whole(1), NearestDuration)
  /\ analysis.offset = 1
  /\ analysis.signal[Len(analysis.signal)]
       = analysis.signal[NearestIndex(analysis.signal) + 1]
  /\ NearestIndex(analysis.signal) + 1 < Len(analysis.signal)
  /\ FracEq(analysis.out, NearestDuration)

\* the time the signal spans: len(signal) * timestep
SeriesLength ==
  FracMul(Whole(Len(analysis.signal)), analysis.timestep)

\* C19: a duration below 1 time unit is replaced by the length of the whole
\* series, so that a series of at least 1 time unit never gives less than 1.
C19_ShortDurationReplaced ==
  analysis.fn = "APD90"
    => /\ FracLt(NearestDuration, Whole(1))
            => FracEq(analysis.out, SeriesLength)
       /\ FracLe(Whole(1), SeriesLength) => FracLe(Whole(1), analysis.out)

\* a flat series of at least 1 time unit, its duration 0, gave its length
C19_Witness ==
  /\ analysis.fn = "APD90"
  /\ Cardinality(Values(analysis.signal)) = 1
  /\ FracEq(NearestDuration, Whole(0))
  /\ FracLe(Whole(1), SeriesLength)
  /\ FracEq(analysis.out, SeriesLength)

\* C20: the trafficking rate Kt that conductance_simulation installs is the
\* literal the drug-driven modes install, whatever the model declares.
C20_ConductanceFixedKt ==
  (call.mode = "conductance_simulation" /\ Configured)
    => sim.constants.Kt = TraffickingRate

\* ------------------------------------------------- the library's tables
\* a decimal literal of the library, m * 10^e
Dec(m, e) == [m |-> m, e |-> e]

Positive(x) == x.m > 0

Zero(x) == x.m = 0

\* BindingParameters.Hill_curve as written: for each drug the entries of its
\* dictionary display, in order
Hill_entries ==
  ("dofetilide" :>
     <<[channel |-> "IKr", Hill_coef |-> Dec(9, -1), IC50 |-> Dec(49, -1)],
       [channel |-> "INaL", Hill_coef |-> Dec(3, -1), IC50 |-> Dec(753164, -1)],
       [channel |-> "ICaL", Hill_coef |-> Dec(12, -1), IC50 |-> Dec(2603, -1)],
       [channel |-> "INa", Hill_coef |-> Dec(9, -1), IC50 |-> Dec(3805, -1)],
       [channel |-> "Ito", Hill_coef |-> Dec(8, -1), IC50 |-> Dec(188, -1)],
       [channel |-> "IK1", Hill_coef |-> Dec(8, -1), IC50 |-> Dec(3943, -1)],
       [channel |-> "IKs", Hill_coef |-> Dec(0, 0), IC50 |-> Dec(0, 0)]>>) @@
  ("bepridil" :>
     <<[channel |-> "IKr", Hill_coef |-> Dec(9, -1), IC50 |-> Dec(5, 1)],
       [channel |-> "INaL", Hill_coef |-> Dec(14, -1), IC50 |-> Dec(18139, -1)],
       [channel |-> "ICaL", Hill_coef |-> Dec(6, -1), IC50 |-> Dec(28081, -1)],
       [channel |-> "INa", Hill_coef |-> Dec(12, -1), IC50 |-> Dec(29293, -1)],
       [channel |-> "Ito", Hill_coef |-> Dec(35, -1), IC50 |-> Dec(8594, 0)],
       [channel |-> "IK1", Hill_coef |-> Dec(0, 0), IC50 |-> Dec(0, 0)],
       [channel |-> "IKs", Hill_coef |-> Dec(7, -1), IC50 |-> Dec(286283, -1)]>>) @@
  ("terfenadine" :>
     <<[channel |-> "IKr", Hill_coef |-> Dec(6, -1), IC50 |-> Dec(23, 0)],
       [channel |-> "INaL", Hill_coef |-> Dec(6, -1), IC50 |-> Dec(20056, 0)],
       [channel |-> "ICaL", Hill_coef |-> Dec(7, -1), IC50 |-> Dec(7004, -1)],
       [channel |-> "INa", Hill_coef |-> Dec(1, 0), IC50 |-> Dec(48032, -1)],
       [channel |-> "Ito", Hill_coef |-> Dec(3, -1), IC50 |-> Dec(2399608, -1)],
       [channel |-> "IK1", Hill_coef |-> Dec(0, 0), IC50 |-> Dec(0, 0)],
       [channel |-> "IKs", Hill_coef |-> Dec(5, -1), IC50 |-> Dec(399754, 0)]>>) @@
  ("cisapride" :>
     <<[channel |-> "IKr", Hill_coef |-> Dec(7, -1), IC50 |-> Dec(101, -1)],
       [channel |-> "INaL", Hill_coef |-> Dec(0, 0), IC50 |-> Dec(0, 0)],
       [channel |-> "ICaL", Hill_coef |-> Dec(4, -1), IC50 |-> Dec(9258076, 0)],
       [channel |-> "INa", Hill_coef |-> Dec(0, 0), IC50 |-> Dec(0, 0)],
       [channel |-> "Ito", Hill_coef |-> Dec(2, -1), IC50 |-> Dec(2191124, -1)],
       [channel |-> "IK1", Hill_coef |-> Dec(5, -1), IC50 |-> Dec(29498, 0)],
       [channel |-> "IKs", Hill_coef |-> Dec(3, -1), IC50 |-> Dec(81192862, 0)]>>) @@
  ("verapamil" :>
     <<[channel |-> "IKr", Hill_coef |-> Dec(1, 0), IC50 |-> Dec(288, 0)],
       [channel |-> "INaL", Hill_coef |-> Dec(1, 0), IC50 |-> Dec(7028, 0)],
       [channel |-> "ICaL", Hill_coef |-> Dec(11, -1), IC50 |-> Dec(2018, -1)],
       [channel |-> "INa", Hill_coef |-> Dec(0, 0), IC50 |-> Dec(0, 0)],
       [channel |-> "Ito", Hill_coef |-> Dec(8, -1), IC50 |-> Dec(134292, -1)],
       [channel |-> "IK1", Hill_coef |-> Dec(3, -1), IC50 |-> Dec(349, 6)],
       [channel |-> "IKs", Hill_coef |-> Dec(0, 0), IC50 |-> Dec(0, 0)]>>) @@
  ("ranolazine" :>
     <<[channel |-> "IKr", Hill_coef |-> Dec(9, -1), IC50 |-> Dec(827, 1)],
       [channel |-> "INaL", Hill_coef |-> Dec(9, -1), IC50 |-> Dec(78845, -1)],
       [channel |-> "ICaL", Hill_coef |-> Dec(0, 0), IC50 |-> Dec(0, 0)],
       [channel |-> "INa", Hill_coef |-> Dec(14, -1), IC50 |-> Dec(68774, 0)],
       [channel |-> "Ito", Hill_coef |-> Dec(0, 0), IC50 |-> Dec(0, 0)],
       [channel |-> "IK1", Hill_coef |-> Dec(0, 0), IC50 |-> Dec(0, 0)],
       [channel |-> "IKs", Hill_coef |-> Dec(5, -1), IC50 |-> Dec(3615502, 1)]>>) @@
  ("mexiletine" :>
     <<[channel |-> "IKr", Hill_coef |-> Dec(9, -1), IC50 |-> Dec(2888, 1)],
       [channel |-> "INaL", Hill_coef |-> Dec(14, -1), IC50 |-> Dec(89568, -1)],
       [channel |-> "ICaL", Hill_coef |-> Dec(1, 0), IC50 |-> Dec(382436, -1)],
       [channel |-> "INa", Hill_coef |-> Dec(0, 0), IC50 |-> Dec(0, 0)],
       [channel |-> "Ito", Hill_coef |-> Dec(0, 0), IC50 |-> Dec(0, 0)],
       [channel |-> "IK1", Hill_coef |-> Dec(0, 0), IC50 |-> Dec(0, 0)],
       [channel |-> "IKs", Hill_coef |-> Dec(0, 0), IC50 |-> Dec(0, 0)]>>) @@
  ("quinidine" :>
     <<[channel |-> "IKr", Hill_coef |-> Dec(8, -1), IC50 |-> Dec(992, 0)],
       [channel |-> "INaL", Hill_coef |-> Dec(13, -1), IC50 |-> Dec(9417, 0)],
       [channel |-> "ICaL", Hill_coef |-> Dec(6, -1), IC50 |-> Dec(515923, -1)],
       [channel |-> "INa", Hill_coef |-> Dec(15, -1), IC50 |-> Dec(12329, 0)],
       [channel |-> "Ito", Hill_coef |-> Dec(13, -1), IC50 |-> Dec(34874, -1)],
       [channel |-> "IK1", Hill_coef |-> Dec(4, -1), IC50 |-> Dec(39589919, 0)],
       [channel |-> "IKs", Hill_coef |-> Dec(14, -1), IC50 |-> Dec(48989, -1)]>>) @@
  ("sotalol" :>
     <<[channel |-> "IKr", Hill_coef |-> Dec(8, -1), IC50 |-> Dec(1106, 2)],
       [channel |-> "INaL", Hill_coef |-> Dec(0, 0), IC50 |-> Dec(0, 0)],
       [channel |-> "ICaL", Hill_coef |-> Dec(9, -1), IC50 |-> Dec(7061527, 0)],
       [channel |-> "INa", Hill_coef |-> Dec(5, -1), IC50 |-> Dec(114, 7)],
       [channel |-> "Ito", Hill_coef |-> Dec(7, -1), IC50 |-> Dec(43143455, 0)],
       [channel |-> "IK1", Hill_coef |-> Dec(12, -1), IC50 |-> Dec(305026, 1)],
       [channel |-> "IKs", Hill_coef |-> Dec(12, -1), IC50 |-> Dec(4221856, 0)]>>) @@
  ("chlorpromazine" :>
     <<[channel |-> "IKr", Hill_coef |-> Dec(8, -1), IC50 |-> Dec(9292, -1)],
       [channel |-> "INaL", Hill_coef |-> Dec(9, -1), IC50 |-> Dec(45596, -1)],
       [channel |-> "ICaL", Hill_coef |-> Dec(8, -1), IC50 |-> Dec(81919, -1)],
       [channel |-> "INa", Hill_coef |-> Dec(2, 0), IC50 |-> Dec(45356, -1)],
       [channel |-> "Ito", Hill_coef |-> Dec(4, -1), IC50 |-> Dec(17616711, 0)],
       [channel |-> "IK1", Hill_coef |-> Dec(7, -1), IC50 |-> Dec(92699, -1)],
       [channel |-> "IKs", Hill_coef |-> Dec(0, 0), IC50 |-> Dec(0, 0)]>>) @@
  ("ondansetron" :>
     <<[channel |-> "IKr", Hill_coef |-> Dec(9, -1), IC50 |-> Dec(132, 1)],
       [channel |-> "INaL", Hill_coef |-> Dec(1, 0), IC50 |-> Dec(191808, -1)],
       [channel |-> "ICaL", Hill_coef |-> Dec(8, -1), IC50 |-> Dec(225514, -1)],
       [channel |-> "INa", Hill_coef |-> Dec(1, 0), IC50 |-> Dec(576664, -1)],
       [channel |-> "Ito", Hill_coef |-> Dec(1, 0), IC50 |-> Dec(1023378, 0)],
       [channel |-> "IK1", Hill_coef |-> Dec(0, 0), IC50 |-> Dec(0, 0)],
       [channel |-> "IKs", Hill_coef |-> Dec(7, -1), IC50 |-> Dec(569807, 0)]>>) @@
  ("diltiazem" :>
     <<[channel |-> "IKr", Hill_coef |-> Dec(9, -1), IC50 |-> Dec(1315, 1)],
       [channel |-> "INaL", Hill_coef |-> Dec(7, -1), IC50 |-> Dec(218685, -1)],
       [channel |-> "ICaL", Hill_coef |-> Dec(7, -1), IC50 |-> Dec(1121, -1)],
       [channel |-> "INa", Hill_coef |-> Dec(7, -1), IC50 |-> Dec(110859, 0)],
       [channel |-> "Ito", Hill_coef |-> Dec(2, -1), IC50 |-> Dec(282, 7)],
       [channel |-> "IK1", Hill_coef |-> Dec(0, 0), IC50 |-> Dec(0, 0)],
       [channel |-> "IKs", Hill_coef |-> Dec(0, 0), IC50 |-> Dec(0, 0)]>>)

\* a dictionary display: a key written more than once keeps its last value
dict(entries) ==
  [k \in {entries[i].channel : i \in DOMAIN entries} |->
     LET at == {i \in DOMAIN entries : entries[i].channel = k}
         hi == CHOOSE i \in at : \A j \in at : j <= i
     IN  [Hill_coef |-> entries[hi].Hill_coef, IC50 |-> entries[hi].IC50]]

\* a slip of Hill_curve: a channel of no measurable effect is left out of
\* its drug's record
Hill_curveSparse ==
  [d \in DOMAIN Hill_entries |->
     LET whole == dict(Hill_entries[d])
     IN  [k \in {c \in DOMAIN whole : ~Zero(whole[c].IC50)} |-> whole[k]]]

\* BindingParameters.Hill_curve, the table a reader gets
Hill_curve == [d \in DOMAIN Hill_entries |-> dict(Hill_entries[d])]

\* the channels of an ion-channel block record
HillChannels == {"IKr", "INaL", "ICaL", "INa", "Ito", "IK1", "IKs"}

\* DrugConcentrations.drug_compounds
concentration_compounds ==
  <<"dofetilide", "bepridil", "terfenadine", "cisapride", "verapamil",
    "ranolazine", "quinidine", "sotalol", "chlorpromazine", "ondansetron",
    "diltiazem", "mexiletine", "droperidol">>

\* DrugConcentrations.drug_concentrations: the coarse and lit_default lists
\* as written, the fine grid 10.0**np.linspace(from, to, points)
drug_concentrations ==
  ("dofetilide" :>
     [coarse |-> <<Dec(0, 0), Dec(1, -1), Dec(1, 0), Dec(1, 1), Dec(3, 1), Dec(1, 2), Dec(3, 2), Dec(5, 2), Dec(1, 3)>>,
      fine |-> [from |-> Dec(-1, 0), to |-> Dec(25, -1), points |-> 20],
      lit_default |-> <<Dec(1, 0), Dec(3, 0), Dec(1, 1), Dec(3, 1)>>]) @@
  ("verapamil" :>
     [coarse |-> <<Dec(0, 0), Dec(1, -1), Dec(1, 0), Dec(3, 1), Dec(3, 2), Dec(1, 3), Dec(1, 4), Dec(1, 5)>>,
      fine |-> [from |-> Dec(-1, 0), to |-> Dec(5, 0), points |-> 20],
      lit_default |-> <<Dec(3, 1), Dec(1, 2), Dec(3, 2), Dec(1, 3)>>]) @@
  ("bepridil" :>
     [coarse |-> <<Dec(0, 0), Dec(1, -1), Dec(1, 0), Dec(3, 1), Dec(1, 2), Dec(3, 2), Dec(1, 3), Dec(1, 4)>>,
      fine |-> [from |-> Dec(-1, 0), to |-> Dec(5, 0), points |-> 20],
      lit_default |-> <<Dec(1, 1), Dec(3, 1), Dec(1, 2), Dec(3, 2)>>]) @@
  ("terfenadine" :>
     [coarse |-> <<Dec(0, 0), Dec(1, -1), Dec(1, 0), Dec(1, 1), Dec(3, 1), Dec(1, 2), Dec(3, 2), Dec(5, 2), Dec(1, 3), Dec(1, 4)>>,
      fine |-> [from |-> Dec(-1, 0), to |-> Dec(5, 0), points |-> 20],
      lit_default |-> <<Dec(3, 0), Dec(1, 1), Dec(3, 1), Dec(1, 2)>>]) @@
  ("cisapride" :>
     [coarse |-> <<Dec(0, 0), Dec(1, -1), Dec(1, 0), Dec(1, 1), Dec(3, 1), Dec(1, 2), Dec(3, 2), Dec(5, 2), Dec(1, 3), Dec(3, 3)>>,
      fine |-> [from |-> Dec(-1, 0), to |-> Dec(3, 0), points |-> 20],
      lit_default |-> <<Dec(1, 0), Dec(1, 1), Dec(1, 2), Dec(3, 2)>>]) @@
  ("ranolazine" :>
     [coarse |-> <<Dec(0, 0), Dec(1, 0), Dec(3, 1), Dec(3, 2), Dec(5, 2), Dec(1, 3), Dec(1, 4), Dec(1, 5), Dec(1, 6)>>,
      fine |-> [from |-> Dec(1, 0), to |-> Dec(55, -1), points |-> 20],
      lit_default |-> <<Dec(1, 3), Dec(1, 4), Dec(3, 4), Dec(1, 5)>>]) @@
  ("quinidine" :>
     [coarse |-> <<Dec(0, 0), Dec(1, 0), Dec(3, 1), Dec(3, 2), Dec(5, 2), Dec(1, 3), Dec(3, 3), Dec(1, 4), Dec(1, 5)>>,
      fine |-> [from |-> Dec(-1, 0), to |-> Dec(5, 0), points |-> 20],
      lit_default |-> <<Dec(1, 2), Dec(3, 2), Dec(1, 3), Dec(1, 4)>>]) @@
  ("sotalol" :>
     [coarse |-> <<Dec(0, 0), Dec(1, 0), Dec(3, 1), Dec(1, 2), Dec(3, 2), Dec(1, 3), Dec(1, 4), Dec(3, 4), Dec(1, 5), Dec(3, 5), Dec(1, 6), Dec(1, 7)>>,
      fine |-> [from |-> Dec(-1, 0), to |-> Dec(7, 0), points |-> 20],
      lit_default |-> <<Dec(1, 4), Dec(3, 4), Dec(1, 5), Dec(3, 5)>>]) @@
  ("chlorpromazine" :>
     [coarse |-> <<Dec(0, 0), Dec(1, 0), Dec(3, 1), Dec(3, 2), Dec(5, 2), Dec(1, 3), Dec(3, 3), Dec(1, 4), Dec(1, 5)>>,
      fine |-> [from |-> Dec(-1, 0), to |-> Dec(45, -1), points |-> 20],
      lit_default |-> <<Dec(1, 2), Dec(3, 2), Dec(1, 3), Dec(3, 3)>>]) @@
  ("ondansetron" :>
     [coarse |-> <<Dec(0, 0), Dec(1, 0), Dec(3, 1), Dec(3, 2), Dec(5, 2), Dec(1, 3), Dec(3, 3), Dec(1, 4), Dec(1, 5), Dec(3, 5)>>,
      fine |-> [from |-> Dec(-1, 0), to |-> Dec(55, -1), points |-> 20],
      lit_default |-> <<Dec(3, 2), Dec(1, 3), Dec(3, 3), Dec(1, 4)>>]) @@
  ("diltiazem" :>
     [coarse |-> <<Dec(0, 0), Dec(1, 0), Dec(3, 1), Dec(1, 2), Dec(3, 2), Dec(1, 3), Dec(3, 3), Dec(1, 4), Dec(3, 4), Dec(1, 5), Dec(1, 6), Dec(1, 7)>>,
      fine |-> [from |-> Dec(-1, 0), to |-> Dec(6, 0), points |-> 20],
      lit_default |-> <<Dec(3, 3), Dec(1, 4), Dec(3, 4), Dec(1, 5)>>]) @@
  ("mexiletine" :>
     [coarse |-> <<Dec(0, 0), Dec(1, 0), Dec(3, 1), Dec(1, 2), Dec(3, 2), Dec(1, 3), Dec(1, 4), Dec(3, 4), Dec(1, 5), Dec(1, 6), Dec(1, 7)>>,
      fine |-> [from |-> Dec(-1, 0), to |-> Dec(7, 0), points |-> 20],
      lit_default |-> <<Dec(1, 4), Dec(3, 4), Dec(1, 5), Dec(3, 5)>>])

Grids == {"coarse", "fine", "lit_default"}

\* the fields of a binding_parameters record
BindingFields == {"Vhalf", "Kmax", "Ku", "N", "EC50", "Cmax"}

Elements(seq) == {seq[i] : i \in DOMAIN seq}

\* the names a reader asks the library for: the ones it lists and the ones
\* its tables hold
LibraryDrugs ==
  Elements(drug_compounds) \cup Elements(concentration_compounds)
    \cup DOMAIN binding_parameters \cup DOMAIN Hill_entries
    \cup DOMAIN drug_concentrations

\* held[drug]: the record, or KeyError for a name the table does not hold
Subscript(name, held, drug) ==
  IF drug \in DOMAIN held
    THEN [table |-> name, drug |-> drug, error |-> "none",
          keys |-> DOMAIN held[drug], value |-> held[drug]]
    ELSE [table |-> name, drug |-> drug, error |-> "KeyError",
          keys |-> {}, value |-> <<>>]

\* held[drug][key]
Subscript2(name, held, drug, key) ==
  IF drug \in DOMAIN held /\ key \in DOMAIN held[drug]
    THEN [table |-> name, drug |-> drug, key |-> key, error |-> "none",
          value |-> held[drug][key]]
    ELSE [table |-> name, drug |-> drug, key |-> key, error |-> "KeyError",
          value |-> <<>>]

LibraryInit ==
  /\ \E m \in LoadedModels : Construct(m)
  /\ script = ScriptIdle
  /\ sa = SAIdle
  /\ first = NoFirst
  /\ analysis = NoAnalysis
  /\ lookup = NoLookup

\* one read of a table: the tables are never written, so what a later read
\* gives is what the first would have given
Read(r) ==
  /\ lookup.table = "none"
  /\ lookup' = r
  /\ UNCHANGED <<model, original_constants, initial_state, sim, call, ret,
                 obj, script, sa, first, analysis>>

\* param_lib.binding_parameters[drug]
ReadBindingParameters ==
  \E drug \in LibraryDrugs :
    Read(Subscript("binding_parameters", binding_parameters, drug))

\* param_lib.Hill_curve[drug][channel]
ReadHillCurve ==
  \E drug \in LibraryDrugs, channel \in HillChannels :
    Read(Subscript2("Hill_curve", Hill_curve, drug, channel))

\* drug_conc_lib.drug_concentrations[drug]
ReadDrugConcentrations ==
  \E drug \in LibraryDrugs :
    Read(Subscript("drug_concentrations", drug_concentrations, drug))

\* drug_conc_lib.drug_concentrations[drug][grid]
ReadGrid ==
  \E drug \in LibraryDrugs, grid \in Grids :
    Read(Subscript2("grid", drug_concentrations, drug, grid))

LibraryNext ==
  ReadBindingParameters \/ ReadHillCurve \/ ReadDrugConcentrations
    \/ ReadGrid

SpecLibrary == LibraryInit /\ [][LibraryNext]_vars

\* ---------------------------------------------- properties of the library
\* C21: every drug of the Hill-curve table has a record for each of the
\* seven channels, and a record has Hill_coef = 0 exactly when it has
\* IC50 = 0; every other record has both above 0.
C21_HillTableEncoding ==
  (lookup.table = "Hill_curve" /\ lookup.drug \in DOMAIN Hill_curve)
    => /\ lookup.error = "none"
       /\ Zero(lookup.value.Hill_coef) <=> Zero(lookup.value.IC50)
       /\ \/ Zero(lookup.value.Hill_coef) /\ Zero(lookup.value.IC50)
          \/ Positive(lookup.value.Hill_coef) /\ Positive(lookup.value.IC50)

\* a record of no measurable effect has been read
C21_Witness ==
  /\ lookup.table = "Hill_curve"
  /\ lookup.drug = "diltiazem" /\ lookup.key = "IK1"
  /\ lookup.error = "none"
  /\ Zero(lookup.value.Hill_coef) /\ Zero(lookup.value.IC50)

\* C27: every name a library lists in drug_compounds resolves in that
\* library's table, to a record with all of its fields.
C27_ListedDrugsResolve ==
  /\ (lookup.table = "binding_parameters"
        /\ lookup.drug \in Elements(drug_compounds))
       => lookup.error = "none" /\ lookup.keys = BindingFields
  /\ (lookup.table = "drug_concentrations"
        /\ lookup.drug \in Elements(concentration_compounds))
       => lookup.error = "none" /\ lookup.keys = Grids

\* ------------------------------------ properties of the comparison sweep
\* C22: in the steady-state APD90 sweep the concentrations of the fine grid
\* are taken in increasing order; at each the detailed model is simulated at
\* that concentration and the simplified model with gKr = base conductance
\* times the fitted Hill response at the same concentration; entry i of
\* either sequence belongs to concentration i, and both sequences have the
\* grid's length when the sweep is through.
C22_FineSweepPaired ==
  (script.status # "idle" /\ script.phase = "APD_fine")
    => LET grid == fine_conc(script.drug)
           T == script.APD_trapping
           G == script.APD_conductance
       IN  /\ Len(G) <= Len(T) /\ Len(T) <= Len(G) + 1
           /\ Len(T) <= Len(grid)
           /\ \A i \in DOMAIN T :
                /\ T[i].conc = grid[i] /\ T[i].D = grid[i]
                /\ i > 1 => T[i - 1].conc < T[i].conc
           /\ \A i \in DOMAIN G :
                /\ G[i].conc = grid[i]
                /\ G[i].gKr = <<"base_conductance", script.estimates, grid[i]>>
           /\ script.status = "done"
                => Len(T) = Len(grid) /\ Len(G) = Len(grid)

\* the sweep ran through all 20 concentrations
C22_Witness ==
  /\ script.status = "done" /\ script.phase = "APD_fine"
  /\ Len(script.APD_trapping) = 20
  /\ Len(script.APD_conductance) = 20
  /\ script.APD_conductance[20].conc = fine_conc(script.drug)[20]

\* --------------------------------------- the calibration's normalisation
\* the most concentrations of a manufactured calibration
MaxPeaks == 3

\* the largest manufactured peak current
MaxPeak == 3

\* numpy's a / b of two exact numbers: inf or nan for b = 0
np_divide(a, b) ==
  IF b.num # 0 THEN Num(FracDiv(a, b))
  ELSE IF a.num = 0 THEN NaN ELSE Inf

\* a slip of normalise: the largest peak taken for the range
normaliseByMax(peaks) ==
  [i \in DOMAIN peaks |->
     np_divide(Whole(peaks[i] - Min(Values(peaks))),
               Whole(Max(Values(peaks))))]

\* (peaks - min(peaks)) / (max(peaks) - min(peaks)), element by element
normalise(peaks) ==
  [i \in DOMAIN peaks |->
     np_divide(Whole(peaks[i] - Min(Values(peaks))),
               Whole(Max(Values(peaks)) - Min(Values(peaks))))]

\* the last-pulse peaks of a calibration, one for each concentration
PeakLists ==
  UNION {[1..n -> 0..MaxPeak] : n \in 1..MaxPeaks}

NormaliseInit ==
  /\ \E m \in LoadedModels : Construct(m)
  /\ script = ScriptIdle
  /\ sa = SAIdle
  /\ first = NoFirst
  /\ \E ps \in PeakLists : analysis = [fn |-> "none", peaks |-> ps]
  /\ lookup = NoLookup

\* the peaks collected, the normalisation applied to them
Normalise ==
  /\ analysis.fn = "none"
  /\ Analysed([fn |-> "normalise", peaks |-> analysis.peaks,
               out |-> normalise(analysis.peaks)])

NormaliseNext == Normalise

SpecNormalise == NormaliseInit /\ [][NormaliseNext]_vars

\* C23: when the peaks are not all equal, every normalised value lies in
\* [0, 1], the smallest peak maps to 0, the largest to 1, and the order of
\* the peaks is kept.
C23_MinMaxScaling ==
  (analysis.fn = "normalise" /\ Cardinality(Values(analysis.peaks)) > 1)
    => LET ps == analysis.peaks
           out == analysis.out
       IN  /\ DOMAIN out = DOMAIN ps
           /\ \A i \in DOMAIN ps :
                /\ out[i].kind = "num"
                /\ FracLe(Whole(0), out[i]) /\ FracLe(out[i], Whole(1))
                /\ ps[i] = Min(Values(ps)) => FracEq(out[i], Whole(0))
                /\ ps[i] = Max(Values(ps)) => FracEq(out[i], Whole(1))
           /\ \A i, j \in DOMAIN ps :
                /\ ps[i] < ps[j] => FracLt(out[i], out[j])
                /\ ps[i] = ps[j] => FracEq(out[i], out[j])

\* three peaks, the smallest not 0, the middle one mapped inside (0, 1)
C23_Witness ==
  /\ analysis.fn = "normalise"
  /\ Len(analysis.peaks) = 3
  /\ analysis.peaks[1] > analysis.peaks[2]
  /\ analysis.peaks[2] > analysis.peaks[3]
  /\ analysis.peaks[3] > 0
  /\ FracEq(analysis.out[1], Whole(1))
  /\ FracLt(Whole(0), analysis.out[2]) /\ FracLt(analysis.out[2], Whole(1))
  /\ FracEq(analysis.out[3], Whole(0))

\* ------------------------------------- properties of the solver's calls
\* the positions of an operation in the record of the solver's calls
Position(name) == {i \in DOMAIN sim.ops : sim.ops[i].op = name}

\* the operations that configure a solver
Configuring == {"set_tolerance", "set_state", "set_constant"}

\* C24: in the three behaviour modes a new solver is made and reset, and
\* the tolerances and all seven constants are installed, before any solver
\* time is advanced; pre() comes before run(), and nothing is configured
\* between or after them.
C24_ConfigureThenPace ==
  (call.mode \in ThreeModes /\ Configured)
    => LET ops == sim.ops
       IN  /\ Len(ops) >= 2
           /\ ops[1].op = "Simulation" /\ ops[2].op = "reset"
           /\ Cardinality(Position("Simulation")) = 1
           /\ Cardinality(Position("reset")) = 1
           /\ Cardinality(Position("pre")) = 1
           /\ Cardinality(Position("run")) <= 1
           /\ \A p \in Position("pre") :
                /\ \E i \in 3..(p - 1) : ops[i].op = "set_tolerance"
                /\ \A c \in ConstNames :
                     \E i \in 3..(p - 1) : ops[i] = Op("set_constant", c)
                /\ \A i \in 3..(p - 1) : ops[i].op \in Configuring
                /\ \A i \in (p + 1)..Len(ops) :
                     i = p + 1 /\ ops[i].op = "run"
           /\ ret.kind # "error" => Last(ops).op = "run"

\* conductance_simulation given a starting state ran to its end
C24_Witness ==
  /\ call.mode = "conductance_simulation" /\ Configured
  /\ ret.kind # "error"
  /\ Position("set_state") # {}
  /\ Len(sim.ops) = 13
  /\ sim.ops[12].op = "pre" /\ sim.ops[13].op = "run"

\* the latest call made again with no starting state, on the driver as the
\* call left it (neither mode reads what it wrote of the driver, but for
\* ikr.D, which drug_simulation writes again)
WithoutState(fail) ==
  LET a == [call EXCEPT !.set_state = None]
  IN  IF call.mode = "drug_simulation"
      THEN drug_simulation(model, sim, original_constants, a, fail)
      ELSE conductance_simulation(model, sim, original_constants, a, fail)

\* C25: drug_simulation changes nothing of the caller's starting-state
\* object but the last entry of its ikr.D series, which becomes drug_conc;
\* conductance_simulation leaves its starting-state object as it was; and
\* an empty starting state does what no starting state does.
C25_StartingStateFrame ==
  /\ (call.mode = "drug_simulation" /\ Configured
        /\ Truthy(call.set_state))
       => /\ obj.kind = call.set_state.kind
          /\ obj.V = call.set_state.V
          /\ Len(obj.D) = Len(call.set_state.D)
          /\ \A i \in 1..(Len(obj.D) - 1) : obj.D[i] = call.set_state.D[i]
          /\ Last(obj.D) = call.drug_conc
  /\ (call.mode = "conductance_simulation" /\ Configured)
       => obj = call.set_state
  /\ (call.mode \in {"drug_simulation", "conductance_simulation"}
        /\ Configured /\ ~Truthy(call.set_state))
       => /\ obj = call.set_state
          /\ Position("set_state") = {}
          /\ \E fail \in Fails :
               /\ WithoutState(fail).sim = sim
               /\ WithoutState(fail).ret = ret
               /\ WithoutState(fail).model = model

\* drug_simulation wrote drug_conc over the last ikr.D of the caller's
\* object and left its first entry
C25_Witness ==
  /\ call.mode = "drug_simulation" /\ Configured
  /\ Truthy(call.set_state)
  /\ obj # call.set_state
  /\ obj.D[1] = call.set_state.D[1]
  /\ Last(obj.D) = call.drug_conc
  /\ obj.V = call.set_state.V

\* ------------------------------------- properties of the SA_drugs sweep
\* the drugs of the rows of the results file, in the file's order
StoredDrugs == [k \in 1..Len(sa.file.rows) |-> sa.file.rows[k].drug]

\* one step of the sweep keeps every stored row and adds at most one, the
\* row of the drug the loop stands at
RowsKept ==
  LET old == sa.file.rows
      new == sa'.file.rows
  IN  /\ Len(new) \in {Len(old), Len(old) + 1}
      /\ SubSeq(new, 1, Len(old)) = old
      /\ Len(new) = Len(old) + 1
           => /\ sa.status = "running" /\ sa.k <= Len(sa.drug_list)
              /\ Last(new).drug = sa.drug_list[sa.k]
              /\ sa'.k = sa.k + 1

\* C26: drugs already in the results file are skipped, every remaining
\* drug is evaluated once in list order, and after each drug the file holds
\* the rows stored before and one new row for that drug; so after a stop
\* between drugs and a rerun no drug has two rows and no row is lost.
C26_ResumeAppends ==
  /\ [](sa.status # "idle"
         => /\ \A i, j \in 1..Len(sa.file.rows) :
                 StoredDrugs[i] = StoredDrugs[j] => i = j
            /\ StoredDrugs = SubSeq(drug_compounds, 1, Len(sa.file.rows))
            /\ \A j \in 1..Len(sa.drug_list) :
                 (j < sa.k /\ j <= Len(sa.drug_list))
                   <=> sa.drug_list[j] \in RanDrugs(sa.file)
            /\ sa.status = "done" => Len(sa.file.rows) = MaxDrugs)
  /\ [][RowsKept]_vars

\* a rerun that found rows stored has added the row of a drug it had left
C26_Witness ==
  /\ sa.status = "running"
  /\ Len(sa.drug_list) < MaxDrugs
  /\ sa.k = 2
  /\ Len(sa.file.rows) > 1
  /\ Last(sa.file.rows).drug = sa.drug_list[1]

============================================================================
